---------------------------- MODULE Spec2Model ----------------------------
(***************************************************************************)
(* The suggestion lifecycle of the writing assistant's store               *)
(* (src/src/store/useStore.ts): invalidation on edit, checker merges,      *)
(* apply with rebasing, bounded undo, and the asynchronous draft           *)
(* persistence the store's updateDraft performs.                           *)
(*                                                                         *)
(* Texts are sequences of one-character strings; a JavaScript index i is   *)
(* the TLA+ index i + 1.                                                   *)
(***************************************************************************)
EXTENDS Integers, Sequences, FiniteSets, TLC

(***************************************************************************)
(* Bounds of the model.                                                    *)
(***************************************************************************)
\* longest text of the store machine
MaxLen == 2
\* longest text handed to invalidateSuggestionsOnEdit in the function harness
MaxArgLen == 3

Chars == {"a", "b"}

\* JavaScript null / undefined, and the absent entry of the drafts array
Null == "null"
NoDraft == [id |-> Null]
\* "no suggestion", "no position" and "no cursor position" (null, undefined)
NoSuggestion == [id |-> Null]
NoPosition == [start |-> Null]
NoCursor == -1

Min(a, b) == IF a < b THEN a ELSE b
Max(a, b) == IF a > b THEN a ELSE b

TextsUpTo(n) == UNION {[1..k -> Chars] : k \in 0..n}
Texts == TextsUpTo(MaxLen)

(***************************************************************************)
(* String primitives of the host language.                                 *)
(***************************************************************************)
\* String.prototype.slice(start, end) for 0 <= start, with end clamped
Slice(text, start, end) ==
    SubSeq(text, start + 1, Min(end, Len(text)))

\* String.prototype.slice(start)
SliceFrom(text, start) == SubSeq(text, start + 1, Len(text))

(***************************************************************************)
(* invalidateSuggestionsOnEdit: the two scans and the overlap filter.      *)
(***************************************************************************)
RECURSIVE ScanForward(_, _, _)
ScanForward(oldText, newText, changeStart) ==
    IF /\ changeStart < Min(Len(oldText), Len(newText))
       /\ oldText[changeStart + 1] = newText[changeStart + 1]
    THEN ScanForward(oldText, newText, changeStart + 1)
    ELSE changeStart

RECURSIVE ScanBackward(_, _, _, _, _)
ScanBackward(oldText, newText, changeStart, oldEnd, newEnd) ==
    IF /\ oldEnd >= changeStart
       /\ newEnd >= changeStart
       /\ oldText[oldEnd + 1] = newText[newEnd + 1]
    THEN ScanBackward(oldText, newText, changeStart, oldEnd - 1, newEnd - 1)
    ELSE oldEnd

ChangeStart(oldText, newText) == ScanForward(oldText, newText, 0)

\* changeEnd as it is first set, never narrowed by the backward scan
ChangeEndMut(oldText, newText) == Max(Len(oldText), Len(newText))

ChangeEnd(oldText, newText) ==
    ScanBackward(oldText, newText, ChangeStart(oldText, newText),
                 Len(oldText) - 1, Len(newText) - 1) + 1

OverlapsMut(s, changeStart, changeEnd) ==
    ~(s.position.end < changeStart \/ s.position.start >= changeEnd)

Overlaps(s, changeStart, changeEnd) ==
    ~(s.position.end <= changeStart \/ s.position.start >= changeEnd)

\* an invalidation that moves the suggestions behind the changed span by
\* the change of length
InvalidateSuggestionsOnEditMut(oldText, newText, suggestions) ==
    LET changeStart == ChangeStart(oldText, newText)
        changeEnd == ChangeEnd(oldText, newText)
        kept == SelectSeq(suggestions,
                          LAMBDA s : ~Overlaps(s, changeStart, changeEnd))
    IN [i \in 1..Len(kept) |->
           IF kept[i].position.start >= changeEnd
           THEN [kept[i] EXCEPT
                    !.position =
                        [start |-> kept[i].position.start
                                      + Len(newText) - Len(oldText),
                         end |-> kept[i].position.end
                                    + Len(newText) - Len(oldText)]]
           ELSE kept[i]]

InvalidateSuggestionsOnEdit(oldText, newText, suggestions) ==
    IF Len(suggestions) = 0 THEN suggestions
    ELSE LET changeStart == ChangeStart(oldText, newText)
             changeEnd == ChangeEnd(oldText, newText)
             validSuggestions ==
                 SelectSeq(suggestions,
                           LAMBDA s : ~Overlaps(s, changeStart, changeEnd))
         IN IF Len(validSuggestions) # Len(suggestions)
            THEN validSuggestions
            ELSE suggestions


(***************************************************************************)
(* validateSuggestion and the position arithmetic of applySuggestion.      *)
(***************************************************************************)
\* validateSuggestion without the comparison of the text
ValidateSuggestionMut(suggestion, currentText) ==
    /\ suggestion.position.start >= 0
    /\ suggestion.position.end <= Len(currentText)

ValidateSuggestion(suggestion, currentText) ==
    LET start == suggestion.position.start
        end == suggestion.position.end
    IN IF start < 0 \/ end > Len(currentText) \/ start >= end
       THEN FALSE
       ELSE Slice(currentText, start, end) = suggestion.original

\* newContent of applySuggestion
NewContent(originalText, s) ==
    Slice(originalText, 0, s.position.start) \o s.suggestion
        \o SliceFrom(originalText, s.position.end)

LengthDiff(s) == Len(s.suggestion) - (s.position.end - s.position.start)

\* one element of the .map(): the shifted suggestion, the suggestion itself,
\* or NoSuggestion for "mark for removal"
RebaseOne(suggestion, start, end, lengthDiff) ==
    IF suggestion.position.start >= end
    THEN [suggestion EXCEPT
            !.position = [start |-> suggestion.position.start + lengthDiff,
                          end |-> suggestion.position.end + lengthDiff]]
    ELSE IF suggestion.position.end > start /\ suggestion.position.start < end
         THEN NoSuggestion
         ELSE suggestion

RECURSIVE MapRebase(_, _, _, _)
MapRebase(suggestions, start, end, lengthDiff) ==
    IF suggestions = <<>> THEN <<>>
    ELSE <<RebaseOne(Head(suggestions), start, end, lengthDiff)>>
             \o MapRebase(Tail(suggestions), start, end, lengthDiff)

\* updatedSuggestions of applySuggestion: filter by id, map, filter nulls
UpdatedSuggestions(suggestions, applied) ==
    SelectSeq(MapRebase(SelectSeq(suggestions,
                                  LAMBDA s : s.id # applied.id),
                        applied.position.start, applied.position.end,
                        LengthDiff(applied)),
              LAMBDA s : s # NoSuggestion)

\* Array.prototype.find that takes the first element, whatever its id
FindByIdMut(suggestions, suggestionId) ==
    IF suggestions = <<>> THEN NoSuggestion ELSE suggestions[1]

\* Array.prototype.find by id: the first match, or NoSuggestion
RECURSIVE FindById(_, _)
FindById(suggestions, suggestionId) ==
    IF suggestions = <<>> THEN NoSuggestion
    ELSE IF Head(suggestions).id = suggestionId THEN Head(suggestions)
         ELSE FindById(Tail(suggestions), suggestionId)

(***************************************************************************)
(* The spell checker (services/spellChecker.ts).  The dictionary is data   *)
(* fetched at start-up; the model holds one word of it.  With one word     *)
(* the order of the suggestion list does not arise.                        *)
(***************************************************************************)
Dictionary == {<<"a", "b">>}

\* generateEdits, as the set of its results over the model's alphabet
GenerateEdits(word) ==
    LET n == Len(word)
    IN {SubSeq(word, 1, i - 1) \o SubSeq(word, i + 1, n) : i \in 1..n}
       \cup {SubSeq(word, 1, i) \o <<c>> \o SubSeq(word, i + 1, n) :
               i \in 0..n, c \in Chars}
       \cup {SubSeq(word, 1, i - 1) \o <<c>> \o SubSeq(word, i + 1, n) :
               i \in 1..n, c \in Chars}
       \cup {SubSeq(word, 1, i - 1) \o <<word[i + 1], word[i]>>
                 \o SubSeq(word, i + 2, n) : i \in 1..(n - 1)}

\* generateSuggestions: single edits, then double edits for short words
GenerateSuggestions(word) ==
    LET edits == GenerateEdits(word)
        single == edits \cap Dictionary
    IN IF Cardinality(single) >= 3 THEN single
       ELSE IF Len(word) <= 6 \/ single = {}
            THEN single \cup (UNION {GenerateEdits(e) : e \in edits}
                                \cap Dictionary)
            ELSE single

\* the suggestion list as an array (at most one element in this model)
SuggestionList(set) == IF set = {} THEN <<>> ELSE <<CHOOSE w \in set : TRUE>>

\* isValidNonWord: of its patterns only "single letter" matches a word
\* over the model's alphabet
IsValidNonWord(word) == Len(word) = 1

\* checkWord: [isCorrect, suggestions]
CheckWord(word) ==
    IF IsValidNonWord(word) THEN [isCorrect |-> TRUE, suggestions |-> <<>>]
    ELSE IF word \in Dictionary
         THEN [isCorrect |-> TRUE, suggestions |-> <<>>]
         ELSE [isCorrect |-> FALSE,
               suggestions |-> SuggestionList(GenerateSuggestions(word))]

IsWordChar(c) == c \in {"a", "b"}

\* the characters that join two runs of word characters into one match
Joiners == {"'", "-"}

\* the last index of the run of word characters that begins at index i
RunEnd(text, i) ==
    CHOOSE j \in i..Len(text) :
        /\ \A k \in i..j : IsWordChar(text[k])
        /\ j = Len(text) \/ ~IsWordChar(text[j + 1])

\* the last index of the match of \w+(?:['\-]\w+)* that begins at index i
RECURSIVE MatchEnd(_, _)
MatchEnd(text, i) ==
    LET j == RunEnd(text, i)
    IN IF /\ j + 2 <= Len(text)
          /\ text[j + 1] \in Joiners
          /\ IsWordChar(text[j + 2])
       THEN MatchEnd(text, j + 2)
       ELSE j

\* the matches of wordRegex, as [index, word] in text order
RECURSIVE WordMatchesFrom(_, _)
WordMatchesFrom(text, i) ==
    IF i >= Len(text) THEN <<>>
    ELSE IF ~IsWordChar(text[i + 1]) THEN WordMatchesFrom(text, i + 1)
         ELSE LET stop == MatchEnd(text, i + 1)
              IN <<[index |-> i, word |-> SubSeq(text, i + 1, stop)]>>
                     \o WordMatchesFrom(text, stop)

\* originalWord.replace(/[^\w.-]/g, '')
CleanWord(originalWord) ==
    SelectSeq(originalWord,
              LAMBDA c : IsWordChar(c) \/ c \in {".", "-"})

\* spellChecker.checkText: the errors, in text order
RECURSIVE ErrorsOf(_)
ErrorsOf(matches) ==
    IF matches = <<>> THEN <<>>
    ELSE LET m == Head(matches)
             result == CheckWord(m.word)
         IN (IF Len(CleanWord(m.word)) = 0 \/ result.isCorrect THEN <<>>
             ELSE <<[word |-> CleanWord(m.word),
                     suggestions |-> result.suggestions,
                     position |-> [start |-> m.index,
                                   end |-> m.index + Len(m.word)]]>>)
            \o ErrorsOf(Tail(matches))

SpellCheckText(text) == ErrorsOf(WordMatchesFrom(text, 0))

(***************************************************************************)
(* The clarity checker's position search (services/clarityChecker.ts).     *)
(***************************************************************************)
\* String.prototype.indexOf: the first index, or -1
IndexOf(fullText, snippet) ==
    LET hits == {i \in 0..(Len(fullText) - Len(snippet)) :
                    SubSeq(fullText, i + 1, i + Len(snippet)) = snippet}
    IN IF hits = {} THEN -1
       ELSE CHOOSE i \in hits : \A j \in hits : i <= j

LowerOf(c) == IF c = "A" THEN "a" ELSE IF c = "B" THEN "b" ELSE c
ToLowerCase(text) == [i \in 1..Len(text) |-> LowerOf(text[i])]

\* findTextPosition: a position, or NoPosition
FindTextPosition(fullText, snippet) ==
    LET index == IndexOf(fullText, snippet)
    IN IF index = -1
       THEN LET lowerIndex == IndexOf(ToLowerCase(fullText),
                                      ToLowerCase(snippet))
            IN IF lowerIndex = -1 THEN NoPosition
               ELSE [start |-> lowerIndex, end |-> lowerIndex + Len(snippet)]
       ELSE [start |-> index, end |-> index + Len(snippet)]

\* processSuggestions: the results for the service's suggestions, in order
RECURSIVE ProcessSuggestions(_, _)
ProcessSuggestions(text, suggestions) ==
    IF suggestions = <<>> THEN <<>>
    ELSE LET suggestion == Head(suggestions)
             position == FindTextPosition(text, suggestion.original)
         IN (IF suggestion.type # "clarity" \/ position = NoPosition THEN <<>>
             ELSE <<[type |-> "clarity",
                     original |-> suggestion.original,
                     suggestion |-> suggestion.suggestion,
                     position |-> position]>>)
            \o ProcessSuggestions(text, Tail(suggestions))

(***************************************************************************)
(* State.                                                                  *)
(***************************************************************************)
VARIABLES
    drafts,              \* store: draft id -> draft record, or NoDraft
    activeDraftId,       \* store
    grammarSuggestions,  \* store: the suggestion set, in array order
    undoStack,           \* store: most recent first
    cursorPosition,      \* store
    isCheckingGrammar,   \* store
    content,             \* editor: the text shown (RichTextEditor content)
    previousContent,     \* editor: the text last compared by the edit effect
    lastClarityCheckContent, \* editor: the text of its last clarity check
    sidebarStale,        \* GrammarSidebar: its content prop has changed
    hasUnsavedChanges,   \* App: edits not yet handed to updateDraft
    now,                 \* Date.now()
    spellTasks,          \* checkSpelling calls whose await has not resumed
    clarityCalls,        \* checkClarity calls awaiting clarityChecker.checkText
    updateCalls,         \* DraftsService.updateDraft requests in flight
    persistCalls,        \* DraftsService.createDraft requests in flight
    lastOp,              \* the store operation the user invoked last
    ops,                 \* the number of operations the user and the timers
                         \* have started
    history,             \* the times of the successful applies, latest first
    auth,                \* useAuth: the session, the last activity, the timer
    editor               \* RichTextEditor: readOnly, hasInitialLoad, its
                         \* clarity timers, and the checkClarity calls made

\* no interval is set
NoTimer == -1

\* useAuth when the hook mounts: no session yet, the activity clock reads
\* the time of the mount, no interval
Mounted == [session |-> FALSE, lastActivityTime |-> 0, nextCheck |-> NoTimer,
            signOutCalls |-> 0]

\* RichTextEditor when it mounts with an empty text: editable, nothing
\* loaded yet, no clarity timer, no checkClarity call made; changedAt is the
\* time its content last changed
EditorMounted == [readOnly |-> FALSE, hasInitialLoad |-> FALSE, timers |-> {},
                  changedAt |-> 0, checks |-> <<>>]

storeVars == <<drafts, activeDraftId, grammarSuggestions, undoStack,
               cursorPosition, isCheckingGrammar>>
editorVars == <<content, previousContent, lastClarityCheckContent,
                sidebarStale, hasUnsavedChanges>>
asyncVars == <<spellTasks, clarityCalls, updateCalls, persistCalls>>

vars == <<drafts, activeDraftId, grammarSuggestions, undoStack, cursorPosition,
          isCheckingGrammar, content, previousContent,
          lastClarityCheckContent, sidebarStale, hasUnsavedChanges, now, spellTasks, clarityCalls, updateCalls,
          persistCalls, lastOp, ops, history, auth, editor>>

(***************************************************************************)
(* Drafts.  A local draft "L1" is created by createNewDraft; the server    *)
(* holds "P1" and answers createDraft for "L1" with the row "P2".          *)
(***************************************************************************)
LocalId == "L1"
LoadedId == "P1"
PersistedIdOf(id) == "P2"
DraftIds == {"L1", "P1", "P2"}

UntitledTitle == "Untitled document"
LoadedTitle == "T"

NoDrafts == [id \in DraftIds |-> NoDraft]

\* getDraftById; no draft has the id "" or null
GetDraftById(ds, id) == IF id \in DraftIds THEN ds[id] ELSE NoDraft

\* String.prototype.trim; the model's alphabet holds no white space
RECURSIVE Trim(_)
Trim(text) ==
    IF text # <<>> /\ Head(text) = " " THEN Trim(Tail(text))
    ELSE IF text # <<>> /\ text[Len(text)] = " "
         THEN Trim(SubSeq(text, 1, Len(text) - 1))
         ELSE text

(***************************************************************************)
(* clarityChecker.checkText.  fetch either rejects or answers with a       *)
(* response; response.json() either rejects or gives the body.  A body's   *)
(* error is "" when it carries none.                                       *)
(***************************************************************************)
\* stands for the 10 characters of clarityChecker.checkText, scaled
ServiceMinLen == 2

\* what checkText resolves to: an array of results, or an error value
ResultsValue(results) ==
    [kind |-> "results", results |-> results, message |-> "", code |-> ""]

ErrorValue(message, code) ==
    [kind |-> "error", results |-> <<>>, message |-> message, code |-> code]

\* an exception on its way out of the try block
Thrown(message) ==
    [kind |-> "thrown", results |-> <<>>, message |-> message, code |-> ""]

\* `API error: ${response.statusText}`
ApiErrorMessage(statusText) ==
    IF statusText = "Internal Server Error"
    THEN "API error: Internal Server Error"
    ELSE "API error: "

\* the try block of checkText
CheckTextTry(text, outcome) ==
    IF outcome.kind = "reject" THEN Thrown(outcome.message)
    ELSE IF ~outcome.ok
    THEN ErrorValue(ApiErrorMessage(outcome.statusText), "API_ERROR")
    ELSE IF outcome.json.kind = "reject" THEN Thrown(outcome.json.message)
    ELSE LET data == outcome.json.body
         IN IF data.error # ""
            THEN ErrorValue(data.error, "SERVICE_ERROR")
            ELSE ResultsValue(ProcessSuggestions(
                     text,
                     IF data.hasSuggestions THEN data.suggestions ELSE <<>>))

\* checkText without its catch block: the exception leaves the call
ClarityCheckTextMut(initialized, text, outcome) ==
    IF ~initialized THEN ErrorValue("not initialized", "NOT_INITIALIZED")
    ELSE IF Trim(text) = <<>> THEN ResultsValue(<<>>)
    ELSE IF Len(Trim(text)) < ServiceMinLen THEN ResultsValue(<<>>)
    ELSE CheckTextTry(text, outcome)

ClarityCheckText(initialized, text, outcome) ==
    IF ~initialized THEN ErrorValue("not initialized", "NOT_INITIALIZED")
    ELSE IF Trim(text) = <<>> THEN ResultsValue(<<>>)
    ELSE IF Len(Trim(text)) < ServiceMinLen THEN ResultsValue(<<>>)
    ELSE LET r == CheckTextTry(text, outcome)
         IN IF r.kind = "thrown"
            THEN ErrorValue(r.message, "NETWORK_ERROR")
            ELSE r

\* the "meaningful content" test of updateDraft
Meaningful(title, text) ==
    (title # UntitledTitle /\ title # "") \/ Trim(text) # <<>>

\* convertSupabaseDraft of the row the service answers with
PersistedDraft(id, title, text) ==
    [id |-> id, title |-> title, content |-> text, isLocal |-> FALSE]

(***************************************************************************)
(* Bounds of the store machine.                                            *)
(***************************************************************************)
\* operations the user and the timers start in one run
MaxOps == 6
\* latest value of Date.now()
MaxNow == 1
\* service requests of one kind in flight at once
MaxInFlight == 2
\* undo records the machine lets pile up (the store's own limit is UndoLimit)
MaxUndoDepth == 1
\* suggestions in one answer of the clarity service
MaxBatch == 2
\* stands for the 20 characters of checkClarity, scaled to MaxLen
ClarityMinLen == 1
\* stands for the 10 characters of the grammar timer, scaled to MaxLen
GrammarMinLen == 0

\* the .slice(0, 10) of applySuggestion
UndoLimit == 10

Truthy(id) == id # Null /\ id # ""

Idle == ~sidebarStale /\ spellTasks = <<>> /\ cursorPosition = NoCursor

\* the text App hands to the editor for the active draft
EditorText(ds, aid) ==
    LET d == GetDraftById(ds, aid)
    IN IF d # NoDraft THEN d.content ELSE <<>>

\* the spell check the editor's effect starts when its content changes
EditorSpellTask(text) ==
    IF text # content /\ Len(Trim(text)) > 0 THEN <<text>> ELSE <<>>

\* App's effect when the active draft object is replaced (fires), then the
\* editor's effects
SyncEditor(fires, ds, aid, tasks) ==
    /\ content' = IF fires THEN EditorText(ds, aid) ELSE content
    /\ previousContent' = IF fires THEN EditorText(ds, aid)
                          ELSE previousContent
    /\ lastClarityCheckContent' =
           IF fires /\ EditorText(ds, aid) # content
              /\ Len(Trim(EditorText(ds, aid))) > 0
           THEN <<>>
           ELSE lastClarityCheckContent
    /\ sidebarStale' = (fires /\ EditorText(ds, aid) # content)
    /\ spellTasks' = tasks \o (IF fires
                               THEN EditorSpellTask(EditorText(ds, aid))
                               ELSE <<>>)

(***************************************************************************)
(* updateDraft, up to its await: the new drafts and the request it sends.  *)
(***************************************************************************)
UpdateDraftEffect(id, title, text, auto) ==
    LET draft == GetDraftById(drafts, id)
        call == [id |-> id, title |-> title, content |-> text, auto |-> auto]
    IN IF draft # NoDraft /\ draft.isLocal
       THEN [drafts |-> [drafts EXCEPT ![id] =
                            [draft EXCEPT !.title = title, !.content = text]],
             persistCalls |-> IF Meaningful(title, text)
                              THEN persistCalls \cup {call}
                              ELSE persistCalls,
             updateCalls |-> updateCalls,
             wrote |-> TRUE]
       ELSE [drafts |-> drafts,
             persistCalls |-> persistCalls,
             updateCalls |-> updateCalls \cup {call},
             wrote |-> FALSE]

\* lastOp after any operation but an edit, applySuggestion and
\* undoLastSuggestion
OtherOp == [op |-> "other"]

\* lastOp after an edit in the editor: hit holds the suggestions of the set
\* inside whose range the edit changed text
EditOp(hit) == [op |-> "edit", hit |-> hit]

\* lastOp after undoLastSuggestion: done, or one of its early returns
UndoOp(done) == [op |-> "undo", done |-> done]

(***************************************************************************)
(* Initial state: the store as created, the editor empty.                  *)
(***************************************************************************)
Init ==
    /\ drafts = NoDrafts
    /\ activeDraftId = Null
    /\ grammarSuggestions = <<>>
    /\ undoStack = <<>>
    /\ cursorPosition = NoCursor
    /\ isCheckingGrammar = FALSE
    /\ content = <<>>
    /\ previousContent = <<>>
    /\ lastClarityCheckContent = <<>>
    /\ sidebarStale = FALSE
    /\ hasUnsavedChanges = FALSE
    /\ now = 0
    /\ spellTasks = <<>>
    /\ clarityCalls = {}
    /\ updateCalls = {}
    /\ persistCalls = {}
    /\ lastOp = OtherOp
    /\ ops = 0
    /\ history = <<>>
    /\ auth = Mounted
    /\ editor = EditorMounted

(***************************************************************************)
(* Drafts: load, create, select, log out.                                  *)
(***************************************************************************)
\* a draft id of an earlier draft is still referred to
IdInUse(id) ==
    \/ activeDraftId = id
    \/ \E i \in 1..Len(undoStack) : undoStack[i].draftId = id
    \/ \E c \in updateCalls \cup persistCalls : c.id = id

LoadedContent == <<"a", "b">>

\* loadDrafts, when DraftsService.getDrafts answers
LoadDrafts ==
    /\ Idle
    /\ drafts = NoDrafts
    /\ ~IdInUse(LocalId) /\ ~IdInUse(PersistedIdOf(LocalId))
    /\ drafts' = [NoDrafts EXCEPT ![LoadedId] =
                     PersistedDraft(LoadedId, LoadedTitle, LoadedContent)]
    /\ SyncEditor(TRUE, drafts', activeDraftId, <<>>)
    /\ lastOp' = OtherOp
    /\ UNCHANGED <<activeDraftId, grammarSuggestions, undoStack,
                   cursorPosition, isCheckingGrammar, hasUnsavedChanges, now,
                   clarityCalls, updateCalls, persistCalls>>

\* setActiveDraft(id), then setActiveSent("")
SetActiveDraftEffect(id) ==
    /\ activeDraftId' = id
    /\ grammarSuggestions' = <<>>

\* handleDraftDeselection has a draft to delete
IsEmptyDraft(d) == d # NoDraft /\ d.title = UntitledTitle /\ Trim(content) = <<>>

\* App's handleNewDraft with nothing to save: createNewDraft, setActiveDraft,
\* setActiveSent
NewDraft ==
    /\ Idle
    /\ ~hasUnsavedChanges
    /\ drafts = NoDrafts
    /\ ~IdInUse(LocalId) /\ ~IdInUse(PersistedIdOf(LocalId))
    /\ drafts' = [drafts EXCEPT ![LocalId] =
                     [id |-> LocalId, title |-> UntitledTitle,
                      content |-> <<>>, isLocal |-> TRUE]]
    /\ SetActiveDraftEffect(LocalId)
    /\ SyncEditor(TRUE, drafts', LocalId, <<>>)
    /\ lastOp' = OtherOp
    /\ UNCHANGED <<undoStack, cursorPosition, isCheckingGrammar,
                   hasUnsavedChanges, now, clarityCalls, updateCalls,
                   persistCalls>>

\* App's handleDraftSelect with nothing to save or delete: setActiveDraft(id),
\* setActiveSent
SelectDraft(id) ==
    /\ Idle
    /\ ~hasUnsavedChanges
    /\ ~IsEmptyDraft(GetDraftById(drafts, activeDraftId))
    /\ drafts[id] # NoDraft
    /\ id # activeDraftId
    /\ SetActiveDraftEffect(id)
    /\ SyncEditor(TRUE, drafts, id, <<>>)
    /\ lastOp' = OtherOp
    /\ UNCHANGED <<drafts, undoStack, cursorPosition, isCheckingGrammar,
                   hasUnsavedChanges, now, clarityCalls, updateCalls,
                   persistCalls>>

\* App's handleLogout: setActiveDraft(""), then clearUserData
ClearUserData ==
    /\ Idle
    /\ drafts # NoDrafts
    /\ drafts' = NoDrafts
    /\ activeDraftId' = Null
    /\ grammarSuggestions' = <<>>
    /\ isCheckingGrammar' = FALSE
    /\ hasUnsavedChanges' = FALSE
    /\ SyncEditor(TRUE, drafts', Null, <<>>)
    /\ lastOp' = OtherOp
    /\ UNCHANGED <<undoStack, cursorPosition, now, clarityCalls, updateCalls,
                   persistCalls>>

(***************************************************************************)
(* The checkers' merges.                                                   *)
(***************************************************************************)
\* the Suggestion built from result number index (from 0) of a checker
\* run merged at time t
MakeSuggestion(prefix, t, index, type, original, replacement, position) ==
    [id |-> <<prefix, t, index>>, type |-> type, original |-> original,
     suggestion |-> replacement, source |-> "local", position |-> position]

SpellingSuggestions(errors, t) ==
    [i \in 1..Len(errors) |->
        MakeSuggestion("spell", t, i - 1, "spelling", errors[i].word,
                       IF Len(errors[i].suggestions) > 0
                       THEN errors[i].suggestions[1]
                       ELSE errors[i].word,
                       errors[i].position)]

AddSpellingSuggestions(suggestions, errors, t) ==
    SelectSeq(suggestions, LAMBDA s : s.type # "spelling")
        \o SpellingSuggestions(errors, t)

ClaritySuggestions(results, t) ==
    [i \in 1..Len(results) |->
        MakeSuggestion("clarity", t, i - 1, "clarity", results[i].original,
                       results[i].suggestion, results[i].position)]

AddClaritySuggestions(suggestions, results, t) ==
    suggestions \o ClaritySuggestions(results, t)

GrammarSuggestions(results, t) ==
    [i \in 1..Len(results) |->
        MakeSuggestion("grammar", t, i - 1, results[i].type,
                       results[i].original, results[i].suggestion,
                       results[i].position)]

\* the set() of checkGrammar
MergeGrammar(suggestions, results, t) ==
    SelectSeq(suggestions,
              LAMBDA s : s.source = "local" /\ s.type = "spelling")
        \o GrammarSuggestions(results, t)

WithoutClarity(suggestions) ==
    SelectSeq(suggestions, LAMBDA s : s.type # "clarity")

(***************************************************************************)
(* What the services outside the program may answer.                       *)
(***************************************************************************)
\* one suggestion of the clarity service
AiItems ==
    {[type |-> "clarity", original |-> <<"a">>, suggestion |-> <<>>],
     [type |-> "clarity", original |-> <<"b">>, suggestion |-> <<"a", "a">>]}

\* its answers: up to MaxBatch suggestions
AiAnswers == UNION {[1..k -> AiItems] : k \in 0..MaxBatch}

\* grammarChecker.checkText: write-good reports a range of the text; the
\* replacement is a fixed phrase
GrammarPhrase == <<"b">>

GrammarResults(text) ==
    {<<>>} \cup
    {<<[type |-> "grammar", original |-> Slice(text, i, i + 1),
        suggestion |-> GrammarPhrase,
        position |-> [start |-> i, end |-> i + 1]]>> : i \in 0..(Len(text) - 1)}

(***************************************************************************)
(* The editor and the checkers.                                            *)
(***************************************************************************)
\* the suggestions inside whose range the edit from oldText to newText
\* inserts, deletes or replaces text
HitBy(suggestions, oldText, newText) ==
    {suggestions[i] : i \in
        {j \in 1..Len(suggestions) :
            /\ suggestions[j].position.end > ChangeStart(oldText, newText)
            /\ suggestions[j].position.start < ChangeEnd(oldText, newText)}}

\* handleTextChange, App's handleContentChange, and the editor's edit effect
UserEdit(newText) ==
    /\ Idle
    /\ GetDraftById(drafts, activeDraftId) # NoDraft
    /\ newText # content
    /\ content' = newText
    /\ previousContent' = newText
    /\ lastClarityCheckContent' = IF Len(Trim(newText)) > 0 THEN <<>>
                                  ELSE lastClarityCheckContent
    /\ sidebarStale' = TRUE
    /\ hasUnsavedChanges' = TRUE
    /\ grammarSuggestions' =
           IF Len(Trim(newText)) > 0 /\ previousContent # newText
           THEN InvalidateSuggestionsOnEdit(previousContent, newText,
                                            grammarSuggestions)
           ELSE grammarSuggestions
    /\ spellTasks' = IF Len(Trim(newText)) > 0 THEN <<newText>> ELSE <<>>
    /\ lastOp' = EditOp(HitBy(grammarSuggestions, content, newText))
    /\ UNCHANGED <<drafts, activeDraftId, undoStack, cursorPosition,
                   isCheckingGrammar, now, clarityCalls, updateCalls,
                   persistCalls>>

\* checkSpelling after its await: addSpellingSuggestions
SpellTaskRun ==
    /\ ~sidebarStale
    /\ spellTasks # <<>>
    /\ grammarSuggestions' =
           AddSpellingSuggestions(grammarSuggestions,
                                  SpellCheckText(Head(spellTasks)), now)
    /\ spellTasks' = Tail(spellTasks)
    /\ UNCHANGED <<drafts, activeDraftId, undoStack, cursorPosition,
                   isCheckingGrammar, content, previousContent,
                   lastClarityCheckContent, sidebarStale,
                   hasUnsavedChanges, now, clarityCalls, updateCalls,
                   persistCalls, lastOp>>

\* the editor's cursor effect: place the cursor, setCursorPosition(null)
CursorEffect ==
    /\ ~sidebarStale
    /\ spellTasks = <<>>
    /\ cursorPosition # NoCursor
    /\ cursorPosition' = NoCursor
    /\ UNCHANGED <<drafts, activeDraftId, grammarSuggestions, undoStack,
                   isCheckingGrammar, content, previousContent,
                   lastClarityCheckContent, sidebarStale,
                   hasUnsavedChanges, now, spellTasks, clarityCalls,
                   updateCalls, persistCalls, lastOp>>

FreeSlot(calls) == CHOOSE k \in 1..MaxInFlight : \A c \in calls : c.slot # k

\* the editor's clarity timer: checkClarity(content), up to its await
CheckClarity ==
    /\ Idle
    /\ Len(Trim(content)) > ClarityMinLen
    /\ content # lastClarityCheckContent
    /\ lastClarityCheckContent' = content
    /\ IF Len(Trim(content)) < ClarityMinLen
       THEN /\ grammarSuggestions' = WithoutClarity(grammarSuggestions)
            /\ UNCHANGED <<isCheckingGrammar, clarityCalls>>
       ELSE /\ isCheckingGrammar' = TRUE
            /\ grammarSuggestions' = WithoutClarity(grammarSuggestions)
            /\ clarityCalls' = clarityCalls \cup
                   {[slot |-> FreeSlot(clarityCalls), text |-> content]}
    /\ lastOp' = OtherOp
    /\ UNCHANGED <<drafts, activeDraftId, undoStack, cursorPosition, content,
                   previousContent, sidebarStale, hasUnsavedChanges, now, spellTasks,
                   updateCalls, persistCalls>>

\* checkClarity after its await, with the service's suggestions
ClarityResolve(call, answer) ==
    /\ Idle
    /\ call \in clarityCalls
    /\ grammarSuggestions' =
           AddClaritySuggestions(grammarSuggestions,
                                 ProcessSuggestions(call.text, answer), now)
    /\ isCheckingGrammar' = FALSE
    /\ clarityCalls' = clarityCalls \ {call}
    /\ UNCHANGED <<drafts, activeDraftId, undoStack, cursorPosition, content,
                   previousContent,
                   lastClarityCheckContent, sidebarStale, hasUnsavedChanges, now, spellTasks,
                   updateCalls, persistCalls, lastOp>>

\* lastOp after checkClarity ended on an error
ClarityFailOp == [op |-> "clarityfail"]

\* checkClarity's error path without the finally block
ClarityFailMut(call) ==
    /\ Idle
    /\ call \in clarityCalls
    /\ clarityCalls' = clarityCalls \ {call}
    /\ lastOp' = ClarityFailOp
    /\ UNCHANGED <<drafts, activeDraftId, grammarSuggestions, undoStack,
                   cursorPosition, isCheckingGrammar, content,
                   previousContent, lastClarityCheckContent, sidebarStale,
                   hasUnsavedChanges, now, spellTasks, updateCalls,
                   persistCalls>>

\* checkClarity after its await, with an error object or an exception
ClarityFail(call) ==
    /\ Idle
    /\ call \in clarityCalls
    /\ isCheckingGrammar' = FALSE
    /\ clarityCalls' = clarityCalls \ {call}
    /\ lastOp' = ClarityFailOp
    /\ UNCHANGED <<drafts, activeDraftId, grammarSuggestions, undoStack,
                   cursorPosition, content, previousContent,
                   lastClarityCheckContent, sidebarStale,
                   hasUnsavedChanges, now, spellTasks, updateCalls,
                   persistCalls>>

\* the grammar timer: checkGrammar(content)
CheckGrammar(results) ==
    /\ Idle
    /\ Len(Trim(content)) > GrammarMinLen
    /\ results \in GrammarResults(content)
    /\ grammarSuggestions' = MergeGrammar(grammarSuggestions, results, now)
    /\ lastOp' = OtherOp
    /\ UNCHANGED <<drafts, activeDraftId, undoStack, cursorPosition,
                   isCheckingGrammar, content, previousContent,
                   lastClarityCheckContent, sidebarStale,
                   hasUnsavedChanges, now, spellTasks, clarityCalls,
                   updateCalls, persistCalls>>

\* Date.now() moves on
Tick ==
    /\ Idle
    /\ now' = now + 1
    /\ UNCHANGED <<storeVars, editorVars, asyncVars, lastOp>>

(***************************************************************************)
(* Apply and undo.                                                         *)
(***************************************************************************)
\* a slice that lets go of the newest record instead of the oldest
TakeMut(seq, n) == IF Len(seq) <= n THEN seq ELSE SubSeq(seq, 2, n + 1)

\* Array.prototype.slice(0, n)
Take(seq, n) == SubSeq(seq, 1, Min(Len(seq), n))

\* lastOp after a successful applySuggestion: what the draft and the set
\* were when it was called
ApplyOp(draftId, text, suggestions) ==
    [op |-> "apply", draftId |-> draftId, content |-> text,
     suggestions |-> suggestions]

\* lastOp after applySuggestion returned at "not found"
NotFoundOp(suggestionId) == [op |-> "notfound", id |-> suggestionId]

\* lastOp after applySuggestion found the suggestion stale and dropped it
StaleOp(suggestionId) == [op |-> "stale", id |-> suggestionId]

ApplySuggestion(suggestionId) ==
    LET suggestionToApply == FindById(grammarSuggestions, suggestionId)
        activeDraft == GetDraftById(drafts, activeDraftId)
    IN
    /\ Idle
    /\ IF suggestionToApply = NoSuggestion \/ ~Truthy(activeDraftId)
          \/ activeDraft = NoDraft
       THEN /\ lastOp' = NotFoundOp(suggestionId)
            /\ UNCHANGED <<storeVars, editorVars, asyncVars>>
       ELSE IF ~ValidateSuggestion(suggestionToApply, activeDraft.content)
       THEN /\ grammarSuggestions' =
                   SelectSeq(grammarSuggestions,
                             LAMBDA s : s.id # suggestionId)
            /\ lastOp' = StaleOp(suggestionId)
            /\ UNCHANGED <<drafts, activeDraftId, undoStack, cursorPosition,
                           isCheckingGrammar, editorVars, asyncVars>>
       ELSE LET originalText == activeDraft.content
                newContent == NewContent(originalText, suggestionToApply)
                eff == UpdateDraftEffect(activeDraftId, activeDraft.title,
                                         newContent, FALSE)
                undoState == [draftId |-> activeDraftId,
                              previousContent |-> originalText,
                              appliedSuggestion |-> suggestionToApply,
                              previousSuggestions |-> grammarSuggestions,
                              timestamp |-> now]
            IN /\ drafts' = eff.drafts
               /\ updateCalls' = eff.updateCalls
               /\ persistCalls' = eff.persistCalls
               /\ grammarSuggestions' =
                      UpdatedSuggestions(grammarSuggestions,
                                         suggestionToApply)
               /\ undoStack' = Take(<<undoState>> \o undoStack, UndoLimit)
               /\ cursorPosition' = suggestionToApply.position.start
                                       + Len(suggestionToApply.suggestion)
               /\ SyncEditor(eff.wrote, eff.drafts, activeDraftId, <<newContent>>)
               /\ lastOp' = ApplyOp(activeDraftId, originalText,
                                    grammarSuggestions)
               /\ UNCHANGED <<activeDraftId, isCheckingGrammar,
                              hasUnsavedChanges, clarityCalls>>
    /\ UNCHANGED now

\* canUndo without the comparison of the draft
CanUndoMut == Len(undoStack) > 0

CanUndo == Len(undoStack) > 0 /\ undoStack[1].draftId = activeDraftId

\* undoLastSuggestion without its test of the record's draft
ForAnotherDraftMut(lastUndo, id) == FALSE

\* lastUndo.draftId !== activeDraftId
ForAnotherDraft(lastUndo, id) == lastUndo.draftId # id

UndoLastSuggestion ==
    /\ Idle
    /\ IF ~Truthy(activeDraftId) \/ Len(undoStack) = 0
       THEN /\ lastOp' = UndoOp(FALSE)
            /\ UNCHANGED <<storeVars, editorVars, asyncVars>>
       ELSE IF ForAnotherDraft(undoStack[1], activeDraftId)
       THEN /\ lastOp' = UndoOp(FALSE)
            /\ UNCHANGED <<storeVars, editorVars, asyncVars>>
       ELSE LET lastUndo == undoStack[1]
                currentDraft == GetDraftById(drafts, activeDraftId)
                currentTitle == IF currentDraft # NoDraft
                                   /\ currentDraft.title # ""
                                THEN currentDraft.title
                                ELSE UntitledTitle
                eff == UpdateDraftEffect(activeDraftId, currentTitle,
                                         lastUndo.previousContent, FALSE)
            IN /\ drafts' = eff.drafts
               /\ updateCalls' = eff.updateCalls
               /\ persistCalls' = eff.persistCalls
               /\ grammarSuggestions' = lastUndo.previousSuggestions
               /\ undoStack' = Tail(undoStack)
               /\ SyncEditor(eff.wrote, eff.drafts, activeDraftId,
                             <<lastUndo.previousContent>>)
               /\ lastOp' = UndoOp(TRUE)
               /\ UNCHANGED <<activeDraftId, cursorPosition,
                              isCheckingGrammar, hasUnsavedChanges,
                              clarityCalls>>
    /\ UNCHANGED now

\* the GrammarSidebar's effect on a changed content prop:
\* clearGrammarSuggestions
SidebarEffect ==
    /\ sidebarStale
    /\ sidebarStale' = FALSE
    /\ grammarSuggestions' = <<>>
    /\ UNCHANGED <<drafts, activeDraftId, undoStack, cursorPosition,
                   isCheckingGrammar, content, previousContent,
                   lastClarityCheckContent,
                   hasUnsavedChanges, now, asyncVars, lastOp>>

(***************************************************************************)
(* Saving: App's autoSave, and the answers of DraftsService.               *)
(***************************************************************************)
\* autoSave, up to the await inside updateDraft
AutoSave ==
    LET activeDraft == GetDraftById(drafts, activeDraftId)
        editorTitle == IF activeDraft # NoDraft THEN activeDraft.title
                       ELSE UntitledTitle
        eff == UpdateDraftEffect(activeDraftId, editorTitle, content, TRUE)
    IN /\ Idle
       /\ Truthy(activeDraftId)
       /\ hasUnsavedChanges
       /\ \A c \in updateCalls \cup persistCalls : ~c.auto
       /\ drafts' = eff.drafts
       /\ updateCalls' = eff.updateCalls
       /\ persistCalls' = eff.persistCalls
       \* updateDraft returns at once when it sends nothing
       /\ hasUnsavedChanges' = (eff.updateCalls # updateCalls
                                   \/ eff.persistCalls # persistCalls)
       /\ SyncEditor(eff.wrote, eff.drafts, activeDraftId, <<>>)
       /\ lastOp' = OtherOp
       /\ UNCHANGED <<activeDraftId, grammarSuggestions, undoStack,
                      cursorPosition, isCheckingGrammar, now, clarityCalls>>

\* updateDraft after its await: the row the service returns
UpdateResolve(call) ==
    /\ Idle
    /\ call \in updateCalls
    /\ call.id # LocalId
    /\ updateCalls' = updateCalls \ {call}
    /\ drafts' = IF GetDraftById(drafts, call.id) # NoDraft
                 THEN [drafts EXCEPT ![call.id] =
                          PersistedDraft(call.id, call.title, call.content)]
                 ELSE drafts
    /\ hasUnsavedChanges' = (hasUnsavedChanges /\ ~call.auto)
    /\ SyncEditor(GetDraftById(drafts, call.id) # NoDraft
                      /\ call.id = activeDraftId,
                  drafts', activeDraftId, <<>>)
    /\ UNCHANGED <<activeDraftId, grammarSuggestions, undoStack,
                   cursorPosition, isCheckingGrammar, now, clarityCalls,
                   persistCalls, lastOp>>

\* updateDraft after its await: the service throws
UpdateReject(call) ==
    /\ Idle
    /\ call \in updateCalls
    /\ updateCalls' = updateCalls \ {call}
    /\ UNCHANGED <<storeVars, editorVars, now, spellTasks, clarityCalls,
                   persistCalls, lastOp>>

\* persistDraft after its await: the row the service created
PersistResolve(call) ==
    LET persistedId == PersistedIdOf(call.id)
        found == GetDraftById(drafts, call.id) # NoDraft
    IN /\ Idle
       /\ call \in persistCalls
       /\ persistCalls' = persistCalls \ {call}
       /\ drafts' = IF found
                    THEN [drafts EXCEPT
                             ![call.id] = NoDraft,
                             ![persistedId] =
                                 PersistedDraft(persistedId, call.title,
                                                call.content)]
                    ELSE drafts
       /\ activeDraftId' = IF activeDraftId = call.id THEN persistedId
                           ELSE activeDraftId
       /\ hasUnsavedChanges' = (hasUnsavedChanges /\ ~call.auto)
       /\ SyncEditor(GetDraftById(drafts', activeDraftId')
                         # GetDraftById(drafts, activeDraftId),
                     drafts', activeDraftId', <<>>)
       /\ UNCHANGED <<grammarSuggestions, undoStack, cursorPosition,
                      isCheckingGrammar, now, clarityCalls, updateCalls,
                      lastOp>>

\* persistDraft after its await: the service throws; updateDraft catches
PersistReject(call) ==
    /\ Idle
    /\ call \in persistCalls
    /\ persistCalls' = persistCalls \ {call}
    /\ hasUnsavedChanges' = (hasUnsavedChanges /\ ~call.auto)
    /\ UNCHANGED <<storeVars, content, previousContent,
                   lastClarityCheckContent, sidebarStale, now, spellTasks,
                   clarityCalls, updateCalls, lastOp>>

(***************************************************************************)
(* The store machine.  The bounds sit here, in the guards of Next.         *)
(***************************************************************************)
\* the apply of suggestionId keeps the draft within MaxLen
FitsAfterApply(suggestionId) ==
    LET s == FindById(grammarSuggestions, suggestionId)
        d == GetDraftById(drafts, activeDraftId)
    IN IF s = NoSuggestion \/ d = NoDraft THEN TRUE
       ELSE Len(NewContent(d.content, s)) <= MaxLen

CanSend ==
    /\ Cardinality(updateCalls) < MaxInFlight
    /\ Cardinality(persistCalls) < MaxInFlight

\* an id no suggestion has
NoSuchId == <<"none", 0, 0>>

SuggestionIds == {grammarSuggestions[i].id : i \in 1..Len(grammarSuggestions)}

\* an operation started by the user or a timer
Started(A) ==
    ops < MaxOps /\ A /\ ops' = ops + 1 /\ UNCHANGED <<history, auth, editor>>

\* an effect, a continuation after an await, the clock
Continued(A) == A /\ UNCHANGED <<ops, history, auth, editor>>

Next ==
    \/ Started(LoadDrafts)
    \/ Started(NewDraft)
    \/ \E id \in DraftIds : Started(SelectDraft(id))
    \/ Started(ClearUserData)
    \/ \E newText \in Texts : Started(UserEdit(newText))
    \/ Continued(SidebarEffect)
    \/ Continued(SpellTaskRun)
    \/ Continued(CursorEffect)
    \/ (Cardinality(clarityCalls) < MaxInFlight /\ Started(CheckClarity))
    \/ \E call \in clarityCalls, answer \in AiAnswers :
           Continued(ClarityResolve(call, answer))
    \/ \E call \in clarityCalls : Continued(ClarityFail(call))
    \/ \E results \in GrammarResults(content) : Started(CheckGrammar(results))
    \/ \E id \in SuggestionIds \cup {NoSuchId} :
           /\ CanSend
           /\ Len(undoStack) < MaxUndoDepth
           /\ FitsAfterApply(id)
           /\ Started(ApplySuggestion(id))
    \/ (CanSend /\ Started(UndoLastSuggestion))
    \/ (CanSend /\ Started(AutoSave))
    \/ \E call \in updateCalls : Continued(UpdateResolve(call))
    \/ \E call \in updateCalls : Continued(UpdateReject(call))
    \/ \E call \in persistCalls : Continued(PersistResolve(call))
    \/ \E call \in persistCalls : Continued(PersistReject(call))
    \/ (now < MaxNow /\ Continued(Tick))

Spec == Init /\ [][Next]_vars

(***************************************************************************)
(* invalidateSuggestionsOnEdit on its own: the editor's effect has seen    *)
(* previousContent differ from content and calls the store.  The texts     *)
(* and the suggestion set are drawn from bounded sets; a range may lie     *)
(* anywhere, also beyond the text, as after an earlier unrebased edit.     *)
(***************************************************************************)
ArgTexts == TextsUpTo(MaxArgLen)

ArgSuggestion(n, type, start, end) ==
    [id |-> <<type, 0, n>>, type |-> type, original |-> <<>>,
     suggestion |-> <<"a">>, source |-> "local",
     position |-> [start |-> start, end |-> end]]

ArgRanges == {r \in (0..MaxArgLen + 1) \X (0..MaxArgLen + 1) : r[1] <= r[2]}

ArgSuggestionSets ==
    {<<>>}
    \cup {<<ArgSuggestion(0, "spelling", r[1], r[2])>> : r \in ArgRanges}
    \cup {<<ArgSuggestion(0, "clarity", r[1], r[2]),
            ArgSuggestion(1, "grammar", q[1], q[2])>> :
             r \in ArgRanges, q \in ArgRanges}

InvalidateOp(suggestions) == [op |-> "invalidate", suggestions |-> suggestions]

InitInvalidate ==
    /\ drafts = NoDrafts
    /\ activeDraftId = Null
    /\ grammarSuggestions \in ArgSuggestionSets
    /\ undoStack = <<>>
    /\ cursorPosition = NoCursor
    /\ isCheckingGrammar = FALSE
    /\ previousContent \in ArgTexts
    /\ content \in ArgTexts
    /\ lastClarityCheckContent = <<>>
    /\ sidebarStale = FALSE
    /\ hasUnsavedChanges = FALSE
    /\ now = 0
    /\ spellTasks = <<>>
    /\ clarityCalls = {}
    /\ updateCalls = {}
    /\ persistCalls = {}
    /\ lastOp = OtherOp
    /\ ops = 0
    /\ history = <<>>
    /\ auth = Mounted
    /\ editor = EditorMounted

InvalidateCall ==
    /\ lastOp = OtherOp
    /\ grammarSuggestions' =
           InvalidateSuggestionsOnEdit(previousContent, content,
                                       grammarSuggestions)
    /\ lastOp' = InvalidateOp(grammarSuggestions)
    /\ UNCHANGED <<drafts, activeDraftId, undoStack, cursorPosition,
                   isCheckingGrammar, editorVars, now, asyncVars, ops,
                   history, auth, editor>>

NextInvalidate == InvalidateCall

SpecInvalidate == InitInvalidate /\ [][NextInvalidate]_vars

(***************************************************************************)
(* A long session on one draft: the user keeps typing the same misspelt    *)
(* word and keeps accepting its correction, with no undo.  history is the  *)
(* list of the undo records applySuggestion has pushed, newest first.      *)
(* The clock moves on once between an apply and the next edit, so that     *)
(* every record has a timestamp of its own.                                *)
(***************************************************************************)
\* successful applies in one session
MaxApplies == 11

\* the word the user keeps typing
TypedText == <<"a", "a">>

\* a step that pushes no undo record
Quiet(A) == A /\ UNCHANGED <<ops, history, auth, editor>>

\* applySuggestion; when it went through, its record joins history
Recorded(A) ==
    /\ A
    /\ history' = IF lastOp'.op = "apply"
                  THEN <<undoStack'[1]>> \o history
                  ELSE history
    /\ UNCHANGED <<ops, auth, editor>>

NextUndoLimit ==
    \/ Quiet(NewDraft)
    \/ (now = Len(history) /\ Quiet(UserEdit(TypedText)))
    \/ Quiet(SidebarEffect)
    \/ Quiet(SpellTaskRun)
    \/ Quiet(CursorEffect)
    \/ \E id \in SuggestionIds :
           /\ CanSend
           /\ Len(history) < MaxApplies
           /\ FitsAfterApply(id)
           /\ Recorded(ApplySuggestion(id))
    \/ (CanSend /\ Quiet(AutoSave))
    \/ \E call \in updateCalls : Quiet(UpdateResolve(call))
    \/ \E call \in updateCalls : Quiet(UpdateReject(call))
    \/ \E call \in persistCalls : Quiet(PersistResolve(call))
    \/ \E call \in persistCalls : Quiet(PersistReject(call))
    \/ (now < Len(history) /\ Quiet(Tick))

SpecUndoLimit == Init /\ [][NextUndoLimit]_vars

(***************************************************************************)
(* clarityChecker.checkText on its own: the text, the state of the         *)
(* service and the outcome of fetch are drawn from bounded sets.           *)
(***************************************************************************)
\* suggestions a body may carry: those of AiItems, one of another type, one
\* that differs from the text in case, one that is not in the text
ArgAiItems ==
    AiItems \cup
    {[type |-> "grammar", original |-> <<"a">>, suggestion |-> <<"b">>],
     [type |-> "clarity", original |-> <<"A">>, suggestion |-> <<"b">>],
     [type |-> "clarity", original |-> <<"b", "b", "b", "b">>,
      suggestion |-> <<"a">>]}

ArgAiAnswers == UNION {[1..k -> ArgAiItems] : k \in 0..MaxBatch}

Bodies ==
    {[error |-> e, hasSuggestions |-> FALSE, suggestions |-> <<>>] :
         e \in {"", "service error"}}
    \cup {[error |-> e, hasSuggestions |-> TRUE, suggestions |-> a] :
              e \in {"", "service error"}, a \in ArgAiAnswers}

NoBody == [error |-> "", hasSuggestions |-> FALSE, suggestions |-> <<>>]

JsonOutcomes ==
    {[kind |-> "reject", message |-> "Invalid JSON", body |-> NoBody]}
    \cup {[kind |-> "body", message |-> "", body |-> b] : b \in Bodies}

FetchOutcomes ==
    {[kind |-> "reject", message |-> "Network error", ok |-> FALSE,
      statusText |-> "", json |-> [kind |-> "reject", message |-> "",
                                  body |-> NoBody]]}
    \cup {[kind |-> "response", message |-> "", ok |-> FALSE,
           statusText |-> "Internal Server Error", json |-> j] :
              j \in JsonOutcomes}
    \cup {[kind |-> "response", message |-> "", ok |-> TRUE,
           statusText |-> "OK", json |-> j] : j \in JsonOutcomes}

\* lastOp before the call: its arguments
CheckTextCall(initialized, outcome) ==
    [op |-> "call", initialized |-> initialized, outcome |-> outcome]

\* lastOp after the call: the arguments and what it resolved to
CheckTextOp(call, result) ==
    [op |-> "checkText", call |-> call, result |-> result]

InitClarity ==
    /\ drafts = NoDrafts
    /\ activeDraftId = Null
    /\ grammarSuggestions = <<>>
    /\ undoStack = <<>>
    /\ cursorPosition = NoCursor
    /\ isCheckingGrammar = FALSE
    /\ previousContent = <<>>
    /\ content \in ArgTexts
    /\ lastClarityCheckContent = <<>>
    /\ sidebarStale = FALSE
    /\ hasUnsavedChanges = FALSE
    /\ now = 0
    /\ spellTasks = <<>>
    /\ clarityCalls = {}
    /\ updateCalls = {}
    /\ persistCalls = {}
    /\ lastOp \in {CheckTextCall(i, o) : i \in BOOLEAN, o \in FetchOutcomes}
    /\ ops = 0
    /\ history = <<>>
    /\ auth = Mounted
    /\ editor = EditorMounted

CheckTextCalled ==
    /\ lastOp.op = "call"
    /\ lastOp' = CheckTextOp(lastOp,
                             ClarityCheckText(lastOp.initialized, content,
                                              lastOp.outcome))
    /\ UNCHANGED <<storeVars, editorVars, now, asyncVars, ops, history,
                   auth, editor>>

NextClarity == CheckTextCalled

SpecClarity == InitClarity /\ [][NextClarity]_vars

(***************************************************************************)
(* useAuth: the inactivity timeout.  Time is counted in units of which     *)
(* ACTIVITY_CHECK_INTERVAL_MS is two and SESSION_TIMEOUT_MS is three, so   *)
(* that activity falls between two checks and a check falls on either side *)
(* of the timeout and exactly on it.                                       *)
(***************************************************************************)
SESSION_TIMEOUT_MS == 3

ACTIVITY_CHECK_INTERVAL_MS == 2

MaxClock == 9

\* a comparison that lets the session live one instant longer
SessionExpiredMut(timeSinceLastActivity) ==
    timeSinceLastActivity > SESSION_TIMEOUT_MS

\* the test of checkSessionTimeout
SessionExpired(timeSinceLastActivity) ==
    timeSinceLastActivity >= SESSION_TIMEOUT_MS

\* updateActivity
UpdateActivity(a) == [a EXCEPT !.lastActivityTime = now]

AuthChangeOp(hasSession) == [op |-> "authChange", session |-> hasSession]

ActivityOp == [op |-> "activity"]

CheckOp(timeSinceLastActivity) ==
    [op |-> "checkSessionTimeout", since |-> timeSinceLastActivity]

\* getSession resolves or onAuthStateChange fires: the session is set, and
\* the effect on [session] clears the interval and, with a session, sets a
\* new one and records activity
AuthChange(hasSession) ==
    /\ auth' = IF hasSession
               THEN [UpdateActivity(auth) EXCEPT
                        !.session = TRUE,
                        !.nextCheck = now + ACTIVITY_CHECK_INTERVAL_MS]
               ELSE [auth EXCEPT !.session = FALSE, !.nextCheck = NoTimer]
    /\ lastOp' = AuthChangeOp(hasSession)
    /\ UNCHANGED <<storeVars, editorVars, now, asyncVars, ops, history,
                   editor>>

\* mousedown, mousemove, keypress, scroll, touchstart or click
ActivityEvent ==
    /\ auth' = UpdateActivity(auth)
    /\ lastOp' = ActivityOp
    /\ UNCHANGED <<storeVars, editorVars, now, asyncVars, ops, history,
                   editor>>

\* the interval fires: checkSessionTimeout
CheckSessionTimeout ==
    /\ auth.nextCheck = now
    /\ auth' = IF ~auth.session
               THEN [auth EXCEPT
                        !.nextCheck = now + ACTIVITY_CHECK_INTERVAL_MS]
               ELSE IF SessionExpired(now - auth.lastActivityTime)
               THEN [auth EXCEPT
                        !.signOutCalls = @ + 1,
                        !.nextCheck = now + ACTIVITY_CHECK_INTERVAL_MS]
               ELSE [auth EXCEPT
                        !.nextCheck = now + ACTIVITY_CHECK_INTERVAL_MS]
    /\ lastOp' = CheckOp(now - auth.lastActivityTime)
    /\ UNCHANGED <<storeVars, editorVars, now, asyncVars, ops, history,
                   editor>>

\* time passes, and never past an interval that is due
Elapse ==
    /\ now < MaxClock
    /\ auth.nextCheck # now
    /\ now' = now + 1
    /\ UNCHANGED <<storeVars, editorVars, asyncVars, lastOp, ops, history,
                   auth, editor>>

NextSession ==
    \/ \E hasSession \in BOOLEAN : AuthChange(hasSession)
    \/ ActivityEvent
    \/ CheckSessionTimeout
    \/ Elapse

SpecSession == Init /\ [][NextSession]_vars

(***************************************************************************)
(* Two suggestions accepted one after the other.  history holds, latest    *)
(* first, what each call of applySuggestion was given and how it ended.    *)
(* Once a suggestion has been accepted the user does nothing else; the     *)
(* effects and the answers of the service go on.                           *)
(***************************************************************************)
MaxAttempts == 2

MaxSetup == 5

\* what a call of applySuggestion(id) finds, and its outcome
Attempt(id, outcome) ==
    [draftId |-> activeDraftId,
     previousContent |-> EditorText(drafts, activeDraftId),
     shown |-> content,
     appliedSuggestion |-> FindById(grammarSuggestions, id),
     previousSuggestions |-> grammarSuggestions,
     outcome |-> outcome]

\* the user accepts the suggestion id
Attempted(id) ==
    /\ ApplySuggestion(id)
    /\ history' = <<Attempt(id, lastOp'.op)>> \o history
    /\ UNCHANGED <<ops, auth, editor>>

\* what the user or a timer does before the first suggestion is accepted
Before(A) ==
    /\ history = <<>>
    /\ ops < MaxSetup
    /\ A
    /\ ops' = ops + 1
    /\ UNCHANGED <<history, auth, editor>>

NextTwoApplies ==
    \/ Before(LoadDrafts)
    \/ Before(NewDraft)
    \/ \E id \in DraftIds : Before(SelectDraft(id))
    \/ \E newText \in Texts : Before(UserEdit(newText))
    \/ Continued(SidebarEffect)
    \/ Continued(SpellTaskRun)
    \/ Continued(CursorEffect)
    \/ (Cardinality(clarityCalls) < MaxInFlight /\ Before(CheckClarity))
    \/ \E call \in clarityCalls, answer \in AiAnswers :
           Continued(ClarityResolve(call, answer))
    \/ \E results \in GrammarResults(content) : Before(CheckGrammar(results))
    \/ \E id \in SuggestionIds :
           /\ CanSend
           /\ Len(history) < MaxAttempts
           /\ FitsAfterApply(id)
           /\ Attempted(id)
    \/ (CanSend /\ Before(AutoSave))
    \/ \E call \in updateCalls : Continued(UpdateResolve(call))
    \/ \E call \in persistCalls : Continued(PersistResolve(call))
    \/ (now < MaxNow /\ Continued(Tick))

SpecTwoApplies == Init /\ [][NextTwoApplies]_vars

(***************************************************************************)
(* setActiveDraft, called on a store that holds suggestions for the text   *)
(* of the draft that was active.                                           *)
(***************************************************************************)
\* the sets the three checkers can have made for text
ProducedFor(text) ==
    {AddClaritySuggestions(
         MergeGrammar(AddSpellingSuggestions(<<>>, SpellCheckText(text), 0),
                      results, 0),
         ProcessSuggestions(text, answer), 0) :
             results \in GrammarResults(text), answer \in AiAnswers}

\* two drafts of the service, the first of them active and checked
InitSetActive ==
    /\ \E text \in ArgTexts :
           /\ drafts = [NoDrafts EXCEPT
                           ![LoadedId] =
                               PersistedDraft(LoadedId, LoadedTitle, text),
                           ![PersistedIdOf(LocalId)] =
                               PersistedDraft(PersistedIdOf(LocalId),
                                              UntitledTitle, <<>>)]
           /\ content = text
           /\ previousContent = text
           /\ lastClarityCheckContent = text
           /\ grammarSuggestions \in ProducedFor(text)
    /\ activeDraftId = LoadedId
    /\ undoStack = <<>>
    /\ cursorPosition = NoCursor
    /\ isCheckingGrammar = FALSE
    /\ sidebarStale = FALSE
    /\ hasUnsavedChanges = FALSE
    /\ now = 0
    /\ spellTasks = <<>>
    /\ clarityCalls = {}
    /\ updateCalls = {}
    /\ persistCalls = {}
    /\ lastOp = OtherOp
    /\ ops = 0
    /\ history = <<>>
    /\ auth = Mounted
    /\ editor = EditorMounted

\* the set setActiveDraft leaves
SetActiveDraftKeeps(suggestions) ==
    SelectSeq(suggestions, LAMBDA s : s.type # "clarity")

SetActiveDraftOp(suggestions) ==
    [op |-> "setActiveDraft", suggestions |-> suggestions]

\* setActiveDraft(id) for another document
SetActiveDraftCall(id) ==
    /\ lastOp = OtherOp
    /\ id # activeDraftId
    /\ GetDraftById(drafts, id) # NoDraft
    /\ activeDraftId' = id
    /\ grammarSuggestions' = SetActiveDraftKeeps(grammarSuggestions)
    /\ lastOp' = SetActiveDraftOp(grammarSuggestions)
    /\ UNCHANGED <<drafts, undoStack, cursorPosition, isCheckingGrammar,
                   editorVars, now, asyncVars, ops, history, auth, editor>>

NextSetActive == \E id \in DraftIds : SetActiveDraftCall(id)

SpecSetActive == InitSetActive /\ [][NextSetActive]_vars

(***************************************************************************)
(* checkSpelling on texts with apostrophes and hyphens.                    *)
(***************************************************************************)
SpellChars == Chars \cup Joiners

MaxSpellLen == 4

SpellTexts == UNION {[1..n -> SpellChars] : n \in 0..MaxSpellLen}

SpellCheckOp(errors) == [op |-> "checkSpelling", errors |-> errors]

InitSpell ==
    /\ drafts = NoDrafts
    /\ activeDraftId = Null
    /\ grammarSuggestions = <<>>
    /\ undoStack = <<>>
    /\ cursorPosition = NoCursor
    /\ isCheckingGrammar = FALSE
    /\ content \in SpellTexts
    /\ previousContent = content
    /\ lastClarityCheckContent = <<>>
    /\ sidebarStale = FALSE
    /\ hasUnsavedChanges = FALSE
    /\ now = 0
    /\ spellTasks = <<>>
    /\ clarityCalls = {}
    /\ updateCalls = {}
    /\ persistCalls = {}
    /\ lastOp = OtherOp
    /\ ops = 0
    /\ history = <<>>
    /\ auth = Mounted
    /\ editor = EditorMounted

\* checkSpelling(content): spellChecker.checkText, then
\* addSpellingSuggestions
CheckSpellingCalled ==
    /\ lastOp = OtherOp
    /\ lastOp' = SpellCheckOp(SpellCheckText(content))
    /\ grammarSuggestions' =
           AddSpellingSuggestions(grammarSuggestions,
                                  SpellCheckText(content), now)
    /\ UNCHANGED <<drafts, activeDraftId, undoStack, cursorPosition,
                   isCheckingGrammar, editorVars, now, asyncVars, ops,
                   history, auth, editor>>

NextSpell == CheckSpellingCalled

SpecSpell == InitSpell /\ [][NextSpell]_vars

(***************************************************************************)
(* The editor's effects with their timers.  A clarity timer is a record    *)
(* of the time it is due and the content its callback closes over.         *)
(***************************************************************************)
\* stands for the 400 ms of the clarity timer after an edit
DebounceDelay == 2
\* stands for the 100 ms of the clarity timer before anything was loaded
InitialDelay == 1
MaxEditorClock == 6

\* the cleanup of the clarity effect: clearTimeout(clarityTimer); every
\* timer outstanding was set by the effect's previous run
ClearTimeout(timers) == {}

\* const delay = hasInitialLoad ? 400 : 100
ClarityDelay(hasInitialLoad) ==
    IF hasInitialLoad THEN DebounceDelay ELSE InitialDelay

\* the clarity effect after one of its dependencies changed: its cleanup,
\* then a timer when the content is long enough, editable and not the
\* content of the last check
ClarityEffect(timers, text, lastChecked, readOnly, hasInitialLoad) ==
    ClearTimeout(timers) \cup
        (IF Len(Trim(text)) > ClarityMinLen /\ ~readOnly
            /\ text # lastChecked
         THEN {[due |-> now + ClarityDelay(hasInitialLoad), text |-> text]}
         ELSE {})

\* the edit effect: the texts it hands to checkSpelling
SpellingEffect(text, readOnly) ==
    IF Len(Trim(text)) > 0 /\ ~readOnly THEN <<text>> ELSE <<>>

EditorOp(name, spelling) == [op |-> name, spelling |-> spelling]

\* the text of the editor changes to text: the props effect sets content and
\* previousContent and, for a non-blank text, hasInitialLoad and an empty
\* lastClarityCheckContent; then the edit effect and the clarity effect run
TextChanged(name, text, loaded) ==
    LET lastChecked == IF Len(Trim(text)) > 0 THEN <<>>
                       ELSE lastClarityCheckContent
    IN /\ text # content
       /\ content' = text
       /\ previousContent' = text
       /\ lastClarityCheckContent' = lastChecked
       /\ editor' = [editor EXCEPT
              !.hasInitialLoad = loaded,
              !.changedAt = now,
              !.timers = ClarityEffect(editor.timers, text, lastChecked,
                                       editor.readOnly, loaded)]
       /\ lastOp' = EditorOp(name, SpellingEffect(text, editor.readOnly))
       /\ UNCHANGED <<storeVars, sidebarStale, hasUnsavedChanges, now,
                      asyncVars, ops, history, auth>>

\* handleTextChange: the user types in the textarea, which is disabled in
\* read-only mode; App's handleContentChange hands the text back as the prop
HandleTextChange(newText) ==
    /\ ~editor.readOnly
    /\ TextChanged("handleTextChange", newText, TRUE)

\* App sets another text: a draft or a sent message is loaded, or the store
\* changed the active draft's content
SetEditorContent(text) ==
    TextChanged("setEditorContent", text,
                editor.hasInitialLoad \/ Len(Trim(text)) > 0)

\* activeSentId is set or cleared: the effects that depend on readOnly run
SetReadOnly(readOnly) ==
    /\ readOnly # editor.readOnly
    /\ editor' = [editor EXCEPT
           !.readOnly = readOnly,
           !.timers = ClarityEffect(editor.timers, content,
                                    lastClarityCheckContent, readOnly,
                                    editor.hasInitialLoad)]
    /\ lastOp' = EditorOp("setReadOnly", SpellingEffect(content, readOnly))
    /\ UNCHANGED <<storeVars, editorVars, now, asyncVars, ops, history, auth>>

\* a clarity timer fires: setLastClarityCheckContent(content) and
\* checkClarity(content) with the content of its closure; the clarity effect
\* runs again for the new lastClarityCheckContent
ClarityTimerFires(timer) ==
    /\ timer \in editor.timers
    /\ timer.due = now
    /\ lastClarityCheckContent' = timer.text
    /\ editor' = [editor EXCEPT
           !.checks = <<timer.text>> \o @,
           !.timers = ClarityEffect(editor.timers \ {timer}, content,
                                    timer.text, editor.readOnly,
                                    editor.hasInitialLoad)]
    /\ lastOp' = EditorOp("clarityTimer", <<>>)
    /\ UNCHANGED <<storeVars, content, previousContent, sidebarStale,
                   hasUnsavedChanges, now, asyncVars, ops, history, auth>>

\* time passes, and never past a timer that is due
TimePasses ==
    /\ now < MaxEditorClock
    /\ \A timer \in editor.timers : timer.due # now
    /\ now' = now + 1
    /\ UNCHANGED <<storeVars, editorVars, asyncVars, lastOp, ops, history,
                   auth, editor>>

NextEditor ==
    \/ \E newText \in Texts : HandleTextChange(newText)
    \/ \E text \in Texts : SetEditorContent(text)
    \/ \E readOnly \in BOOLEAN : SetReadOnly(readOnly)
    \/ \E timer \in editor.timers : ClarityTimerFires(timer)
    \/ TimePasses

SpecEditor == Init /\ [][NextEditor]_vars

(***************************************************************************)
(* The changed span, said without the scans.                               *)
(***************************************************************************)
CommonPrefixLen(a, b) ==
    CHOOSE k \in 0..Min(Len(a), Len(b)) :
        /\ \A i \in 1..k : a[i] = b[i]
        /\ k = Min(Len(a), Len(b)) \/ a[k + 1] # b[k + 1]

\* the longest common suffix that stays clear of the first p characters
CommonSuffixLen(a, b, p) ==
    CHOOSE m \in 0..(Min(Len(a), Len(b)) - p) :
        /\ \A i \in 0..(m - 1) : a[Len(a) - i] = b[Len(b) - i]
        /\ m = Min(Len(a), Len(b)) - p \/ a[Len(a) - m] # b[Len(b) - m]

SpanStart(a, b) == CommonPrefixLen(a, b)
SpanEnd(a, b) == Len(a) - CommonSuffixLen(a, b, CommonPrefixLen(a, b))

\* the suggestions of a set that lie outside [cs, ce), in order
Outside(suggestions, cs, ce) ==
    SelectSeq(suggestions,
              LAMBDA s : s.position.end <= cs \/ s.position.start >= ce)

\* C1: after invalidateSuggestionsOnEdit(oldText, newText) the set holds
\* exactly the previous suggestions whose range [s,e) has e <= changeStart
\* or s >= changeEnd, changeStart being the length of the common prefix and
\* changeEnd the index into oldText where the common suffix begins; every
\* other suggestion is removed.
C1_InvalidateKeepsOutside ==
    [][InvalidateCall =>
          grammarSuggestions' =
              Outside(grammarSuggestions,
                      SpanStart(previousContent, content),
                      SpanEnd(previousContent, content))]_vars

\* an edit after which one of two suggestions is gone and the other stays
C1_Witness ==
    /\ lastOp.op = "invalidate"
    /\ previousContent # content
    /\ Len(lastOp.suggestions) = 2
    /\ Len(grammarSuggestions) = 1

(***************************************************************************)
(* The claims about the store machine.                                     *)
(***************************************************************************)
Range(seq) == {seq[i] : i \in 1..Len(seq)}

\* the content of the active draft: the buffer applySuggestion works on
ActiveContent == EditorText(drafts, activeDraftId)

SliceOf(text, s) == Slice(text, s.position.start, s.position.end)

\* this step is applySuggestion(id) getting past its validation
ApplyDone(id) == ApplySuggestion(id) /\ lastOp'.op = "apply"

\* this step is applySuggestion(id) finding the suggestion stale
ApplyStale(id) ==
    /\ ApplySuggestion(id)
    /\ FindById(grammarSuggestions, id) # NoSuggestion
    /\ GetDraftById(drafts, activeDraftId) # NoDraft
    /\ ~ValidateSuggestion(FindById(grammarSuggestions, id), ActiveContent)

\* C2, as the spec states it: at rest, every suggestion in the set equals
\* the buffer at its range, the buffer being the editor's text or, where
\* the two differ, the active draft's content.
C2_SliceEqualsOriginal ==
    Idle =>
        \A i \in 1..Len(grammarSuggestions) :
            \/ SliceOf(content, grammarSuggestions[i])
                   = grammarSuggestions[i].original
            \/ SliceOf(ActiveContent, grammarSuggestions[i])
                   = grammarSuggestions[i].original

\* C2, amended: an edit keeps only suggestions that were in the set, and a
\* kept suggestion that ends at or before the start of the changed span and
\* equalled the old text at its range equals the new text there (one at or
\* after the span keeps its old offsets and may not); and applySuggestion
\* changes the draft only for a suggestion that equals the draft's content
\* at its range.
C2_EditKeepsPrefixApplyValidates ==
    [][/\ (\E newText \in Texts : UserEdit(newText)) =>
              \A i \in 1..Len(grammarSuggestions') :
                  LET s == grammarSuggestions'[i]
                  IN /\ s \in Range(grammarSuggestions)
                     /\ (/\ s.position.end <= SpanStart(content, content')
                         /\ SliceOf(content, s) = s.original)
                            => SliceOf(content', s) = s.original
       /\ \A id \in SuggestionIds :
              ApplyDone(id) =>
                  LET A == FindById(grammarSuggestions, id)
                  IN /\ A.position.start >= 0
                     /\ A.position.start < A.position.end
                     /\ A.position.end <= Len(ActiveContent)
                     /\ SliceOf(ActiveContent, A) = A.original]_vars

\* an edit has left a suggestion in the set that lies after the changed
\* text and no longer equals the editor's text at its range
C2_Witness ==
    /\ lastOp.op = "edit"
    /\ sidebarStale
    /\ Len(Trim(content)) > 0
    /\ \E i \in 1..Len(grammarSuggestions) :
          /\ grammarSuggestions[i].position.start > 0
          /\ SliceOf(content, grammarSuggestions[i])
                 # grammarSuggestions[i].original

\* C3, as the spec states it: after a successful applySuggestion of A with
\* range [a,b) and length delta d, every other suggestion B of the set
\* stays with both bounds shifted by d if B.start >= b, is removed if it
\* overlaps [a,b), and stays unchanged if it lies before A.
C3_ApplyRebasesOthers ==
    [][\A id \in SuggestionIds :
          ApplyDone(id) =>
              LET A == FindById(grammarSuggestions, id)
                  a == A.position.start
                  b == A.position.end
                  d == Len(A.suggestion) - (b - a)
              IN \A j \in 1..Len(grammarSuggestions) :
                    LET B == grammarSuggestions[j]
                    IN B # A =>
                        IF B.position.start >= b
                        THEN [B EXCEPT !.position =
                                 [start |-> B.position.start + d,
                                  end |-> B.position.end + d]]
                                 \in Range(grammarSuggestions')
                        ELSE IF B.position.end > a /\ B.position.start < b
                        THEN B \notin Range(grammarSuggestions')
                        ELSE B \in Range(grammarSuggestions')]_vars

RemoveAt(seq, i) == SubSeq(seq, 1, i - 1) \o SubSeq(seq, i + 1, Len(seq))

\* the index of the first suggestion with the id
IndexOfId(suggestions, id) ==
    CHOOSE i \in 1..Len(suggestions) :
        /\ suggestions[i].id = id
        /\ \A j \in 1..(i - 1) : suggestions[j].id # id

\* C4, as the spec states it: applySuggestion on a suggestion that does not
\* equal the active draft's content at its range removes only that
\* suggestion, and leaves the drafts, the other suggestions, the undo stack
\* and the cursor position as they were.
C4_StaleDropsOnlyThat ==
    [][\A id \in SuggestionIds :
          ApplyStale(id) =>
              /\ drafts' = drafts
              /\ grammarSuggestions' =
                     RemoveAt(grammarSuggestions,
                              IndexOfId(grammarSuggestions, id))
              /\ undoStack' = undoStack
              /\ cursorPosition' = cursorPosition]_vars

\* C5, as the spec states it: when applySuggestion passes validation, once
\* it has returned the active draft's content is
\* content[0..start) + suggestion + content[end..) and the applied
\* suggestion is not in the set.
C5_ApplySetsContent ==
    [][\A id \in SuggestionIds :
          ApplyDone(id) =>
              /\ ActiveContent' =
                     NewContent(ActiveContent,
                                FindById(grammarSuggestions, id))
              /\ \A i \in 1..Len(grammarSuggestions') :
                     grammarSuggestions'[i].id # id]_vars

\* C6, as the spec states it: undoLastSuggestion right after a successful
\* applySuggestion on the same active draft restores the draft's content
\* and the suggestion set to what they were before that apply, and removes
\* the undo record.
C6_UndoRestores ==
    [][(/\ UndoLastSuggestion
        /\ lastOp.op = "apply"
        /\ lastOp.draftId = activeDraftId) =>
           /\ ActiveContent' = lastOp.content
           /\ grammarSuggestions' = lastOp.suggestions
           /\ undoStack' = Tail(undoStack)]_vars

\* the first n elements of seq
MostRecent(seq, n) == [i \in 1..Min(Len(seq), n) |-> seq[i]]

\* C7: the undo stack never holds more than 10 records; after more than 10
\* successful applies with no undo in between it holds exactly the records
\* of the 10 most recent applies, most recent first.
C7_UndoStackHoldsTenMostRecent ==
    /\ Len(undoStack) <= UndoLimit
    /\ undoStack = MostRecent(history, UndoLimit)

\* C7: an apply has gone through after more than 10 applies, the records
\* of the first and the latest one differing
C7_Witness ==
    /\ Len(history) > UndoLimit
    /\ lastOp.op = "apply"
    /\ history[1] # history[Len(history)]
    /\ Len(undoStack) = UndoLimit

OfKind(suggestions, kind) == SelectSeq(suggestions, LAMBDA s : s.type = kind)

NotOfKind(suggestions, kind) ==
    SelectSeq(suggestions, LAMBDA s : s.type # kind)

\* this step leaves the suggestions of every kind but the given one alone
KeepsOtherKinds(kind) ==
    NotOfKind(grammarSuggestions', kind) = NotOfKind(grammarSuggestions, kind)

\* C8, as the spec states it: merging a checker's batch of one kind
\* (addSpellingSuggestions, checkGrammar, checkClarity and
\* addClaritySuggestions) never alters or removes a suggestion of another
\* type.
C8_MergeKeepsOtherKinds ==
    [][/\ SpellTaskRun => KeepsOtherKinds("spelling")
       /\ (\E results \in GrammarResults(content) : CheckGrammar(results))
              => KeepsOtherKinds("grammar")
       /\ CheckClarity => KeepsOtherKinds("clarity")
       /\ (\E call \in clarityCalls, answer \in AiAnswers :
               ClarityResolve(call, answer))
              => KeepsOtherKinds("clarity")]_vars

\* C9, as the spec states it: after a checker run of kind K has merged its
\* result, the suggestions of kind K in the set are exactly that run's
\* candidates, also when several checkClarity calls are in flight.
C9_MergeReplacesOwnKind ==
    [][/\ SpellTaskRun =>
              OfKind(grammarSuggestions', "spelling") =
                  SpellingSuggestions(SpellCheckText(Head(spellTasks)), now)
       /\ \A results \in GrammarResults(content) :
              CheckGrammar(results) =>
                  OfKind(grammarSuggestions', "grammar") =
                      GrammarSuggestions(results, now)
       /\ \A call \in clarityCalls, answer \in AiAnswers :
              ClarityResolve(call, answer) =>
                  OfKind(grammarSuggestions', "clarity") =
                      ClaritySuggestions(
                          ProcessSuggestions(call.text, answer), now)]_vars

\* undoLastSuggestion takes one of its early returns
UndoRefused ==
    IF Len(undoStack) = 0 \/ ~Truthy(activeDraftId) THEN TRUE
    ELSE undoStack[1].draftId # activeDraftId

\* C10: undoLastSuggestion changes neither the drafts, the suggestion set,
\* the undo stack nor the active draft when the stack is empty, when there
\* is no active draft, or when the top record's draftId differs from
\* activeDraftId; and canUndo() is true exactly when the stack is non-empty
\* and the top record's draftId equals activeDraftId, which is exactly when
\* undoLastSuggestion takes none of these returns.
C10_UndoRefused ==
    [][UndoLastSuggestion =>
          /\ UndoRefused =>
                 /\ drafts' = drafts
                 /\ grammarSuggestions' = grammarSuggestions
                 /\ undoStack' = undoStack
                 /\ activeDraftId' = activeDraftId
                 /\ updateCalls' = updateCalls
                 /\ persistCalls' = persistCalls
          /\ CanUndo <=> ~UndoRefused
          /\ CanUndo <=>
                 IF Len(undoStack) = 0 THEN FALSE
                 ELSE undoStack[1].draftId = activeDraftId
          /\ ~UndoRefused => undoStack' = Tail(undoStack)]_vars

\* undoLastSuggestion has returned early on a record of another draft
C10_Witness ==
    /\ lastOp = UndoOp(FALSE)
    /\ Len(undoStack) > 0
    /\ Truthy(activeDraftId)
    /\ undoStack[1].draftId # activeDraftId

(***************************************************************************)
(* applySuggestion: not found, all-or-nothing.                             *)
(***************************************************************************)
\* applySuggestion(id) finds no suggestion or no active draft
ApplyNotFound(id) ==
    \/ id \notin SuggestionIds
    \/ ~Truthy(activeDraftId)
    \/ GetDraftById(drafts, activeDraftId) = NoDraft

\* C11: applySuggestion with an id that is not in the suggestion set, or
\* with no active draft, changes nothing: the drafts, the editor's content,
\* the suggestion set, the undo stack and the cursor position stay as they
\* were, and no request is sent.
C11_ApplyNotFoundChangesNothing ==
    [][\A id \in SuggestionIds \cup {NoSuchId} :
          (ApplySuggestion(id) /\ ApplyNotFound(id)) =>
              /\ drafts' = drafts
              /\ content' = content
              /\ grammarSuggestions' = grammarSuggestions
              /\ undoStack' = undoStack
              /\ cursorPosition' = cursorPosition
              /\ updateCalls' = updateCalls
              /\ persistCalls' = persistCalls]_vars

\* C11: applySuggestion has returned at "not found" for the id of a
\* suggestion that is in the set, there being no active draft
C11_Witness ==
    /\ lastOp.op = "notfound"
    /\ lastOp.id \in SuggestionIds
    /\ ~Truthy(activeDraftId)

\* C12, as the spec states it: every applySuggestion call is
\* all-or-nothing.  Either the drafts, the suggestion set and the undo
\* stack are left as they were; or only the stale suggestion is dropped; or
\* the active draft's content is the new buffer, the set is the rebased set
\* and the new undo record is on the stack.
C12_ApplyAllOrNothing ==
    [][\A id \in SuggestionIds \cup {NoSuchId} :
          ApplySuggestion(id) =>
              \/ /\ drafts' = drafts
                 /\ grammarSuggestions' = grammarSuggestions
                 /\ undoStack' = undoStack
              \/ /\ ~ApplyNotFound(id)
                 /\ drafts' = drafts
                 /\ undoStack' = undoStack
                 /\ grammarSuggestions' =
                        RemoveAt(grammarSuggestions,
                                 IndexOfId(grammarSuggestions, id))
              \/ /\ ~ApplyNotFound(id)
                 /\ ActiveContent' =
                        NewContent(ActiveContent,
                                   FindById(grammarSuggestions, id))
                 /\ grammarSuggestions' =
                        UpdatedSuggestions(grammarSuggestions,
                                           FindById(grammarSuggestions, id))
                 /\ Len(undoStack') > 0
                 /\ Tail(undoStack') = Take(undoStack, UndoLimit - 1)
                 /\ undoStack'[1].previousContent = ActiveContent]_vars

(***************************************************************************)
(* The clarity checker fails.                                              *)
(***************************************************************************)
\* C13: when the clarity checker fails, checkClarity adds no suggestion,
\* leaves every spelling and grammar suggestion as it was, leaves the
\* drafts and the undo stack as they were, and ends with isCheckingGrammar
\* false: neither its start (which removes the clarity suggestions only)
\* nor its error path touches anything else.
C13_ClarityFailureIsContained ==
    [][/\ CheckClarity =>
              /\ NotOfKind(grammarSuggestions', "clarity")
                     = NotOfKind(grammarSuggestions, "clarity")
              /\ OfKind(grammarSuggestions', "clarity") = <<>>
              /\ drafts' = drafts
              /\ undoStack' = undoStack
       /\ \A call \in clarityCalls :
              ClarityFail(call) =>
                  /\ grammarSuggestions' = grammarSuggestions
                  /\ drafts' = drafts
                  /\ undoStack' = undoStack
                  /\ isCheckingGrammar' = FALSE]_vars

\* C13: checkClarity has ended on an error while the set holds a spelling
\* or grammar suggestion
C13_Witness ==
    /\ lastOp = ClarityFailOp
    /\ ~isCheckingGrammar
    /\ NotOfKind(grammarSuggestions, "clarity") # <<>>

(***************************************************************************)
(* An edit inside a suggestion's range.                                    *)
(***************************************************************************)
\* the ids of the suggestions the last edit hit
HitIds == {s.id : s \in lastOp.hit}

\* C14, as the spec states it: if an edit changes text inside the range of a
\* suggestion of the set, then once the edit has been processed that
\* suggestion is not in the set, and a later applySuggestion with its id
\* changes neither the buffer nor the set.
C14_EditInsideInvalidates ==
    [][/\ \A newText \in Texts :
              (UserEdit(newText) /\ Len(Trim(newText)) > 0) =>
                  \A s \in lastOp'.hit : s \notin Range(grammarSuggestions')
       /\ (lastOp.op = "edit" /\ ~sidebarStale) =>
              /\ \A s \in lastOp.hit : s \notin Range(grammarSuggestions)
              /\ \A id \in HitIds :
                     ApplySuggestion(id) =>
                         /\ drafts' = drafts
                         /\ content' = content
                         /\ grammarSuggestions' = grammarSuggestions]_vars

(***************************************************************************)
(* Logging out.                                                            *)
(***************************************************************************)
\* C15, as the spec states it: clearUserData resets the user-related state
\* of the store to its initial values: no drafts, no active draft, no
\* suggestions, isCheckingGrammar false, and nothing of the previous
\* session's documents left: the undo stack empty, the cursor position
\* null.
C15_ClearUserDataResets ==
    [][ClearUserData =>
          /\ drafts' = NoDrafts
          /\ activeDraftId' = Null
          /\ grammarSuggestions' = <<>>
          /\ isCheckingGrammar' = FALSE
          /\ undoStack' = <<>>
          /\ cursorPosition' = NoCursor]_vars

(***************************************************************************)
(* clarityChecker.checkText never rejects.                                 *)
(***************************************************************************)
\* C16: clarityChecker.checkText never rejects: for every outcome of fetch
\* it resolves to an array of results or to an error value with a message;
\* a non-ok status yields an error value, a rejection of fetch or of
\* response.json() yields an error value with the exception's message, a
\* body carrying an error yields an error value with that error, and a
\* body with neither an error nor suggestions yields the empty array.
C16_CheckTextNeverRejects ==
    lastOp.op = "checkText" =>
        LET r == lastOp.result
            o == lastOp.call.outcome
            reached == /\ lastOp.call.initialized
                       /\ Len(Trim(content)) >= ServiceMinLen
        IN /\ r.kind \in {"results", "error"}
           /\ r.kind = "error" => r.message # ""
           /\ ~lastOp.call.initialized => r.kind = "error"
           /\ (reached /\ o.kind = "reject") =>
                  (r.kind = "error" /\ r.message = o.message)
           /\ (reached /\ o.kind = "response" /\ ~o.ok) => r.kind = "error"
           /\ (reached /\ o.kind = "response" /\ o.ok
                  /\ o.json.kind = "reject") =>
                  (r.kind = "error" /\ r.message = o.json.message)
           /\ (reached /\ o.kind = "response" /\ o.ok
                  /\ o.json.kind = "body" /\ o.json.body.error # "") =>
                  (r.kind = "error" /\ r.message = o.json.body.error)
           /\ (reached /\ o.kind = "response" /\ o.ok
                  /\ o.json.kind = "body" /\ o.json.body.error = ""
                  /\ ~o.json.body.hasSuggestions) =>
                  (r.kind = "results" /\ r.results = <<>>)

\* C16: checkText has resolved to an error value after response.json()
\* rejected
C16_Witness ==
    /\ lastOp.op = "checkText"
    /\ lastOp.call.initialized
    /\ Len(Trim(content)) >= ServiceMinLen
    /\ lastOp.call.outcome.kind = "response"
    /\ lastOp.call.outcome.ok
    /\ lastOp.call.outcome.json.kind = "reject"
    /\ lastOp.result.kind = "error"


\* C17: while a session exists, the periodic check calls signOut exactly
\* when the time since the last recorded activity is at least the session
\* timeout; an activity event or an auth change with a session sets the
\* last activity to the present; nothing but the check calls signOut, so
\* signOut is never called sooner than the timeout after the last activity.
C17_SignOutIffInactive ==
    [][/\ (now' = now /\ lastOp'.op = "checkSessionTimeout" /\ auth.session) =>
              ((auth'.signOutCalls = auth.signOutCalls + 1)
                   <=> (now - auth.lastActivityTime >= SESSION_TIMEOUT_MS))
       /\ auth'.signOutCalls # auth.signOutCalls =>
              /\ auth.session
              /\ lastOp'.op = "checkSessionTimeout"
              /\ auth'.signOutCalls = auth.signOutCalls + 1
              /\ now - auth.lastActivityTime >= SESSION_TIMEOUT_MS
       /\ (/\ now' = now
           /\ \/ lastOp'.op = "activity"
              \/ (lastOp'.op = "authChange" /\ lastOp'.session)) =>
              auth'.lastActivityTime = now]_vars

\* a session was signed out by a check that fell exactly on the timeout,
\* after activity had moved the clock forward
C17_Witness ==
    /\ lastOp.op = "checkSessionTimeout"
    /\ lastOp.since = SESSION_TIMEOUT_MS
    /\ auth.signOutCalls = 1
    /\ auth.session
    /\ auth.lastActivityTime > 0
    /\ auth.lastActivityTime + SESSION_TIMEOUT_MS = now

\* the suggestion b where it lies once a, which it does not overlap, has
\* been replaced
AfterReplacing(b, a) ==
    IF b.position.start >= a.position.end
    THEN [b EXCEPT !.position =
             [start |-> b.position.start + LengthDiff(a),
              end |-> b.position.end + LengthDiff(a)]]
    ELSE b

\* the ids of the suggestions differ from one another
DistinctIds(suggestions) ==
    \A i, j \in 1..Len(suggestions) :
        suggestions[i].id = suggestions[j].id => i = j

\* C18: when two valid suggestions A and B that do not overlap are accepted
\* one after the other on the same draft, the content of the draft, once
\* every request has been answered, holds both replacements.
C18_BothAppliesLand ==
    (/\ Len(history) = 2
     /\ updateCalls = {}
     /\ persistCalls = {}
     /\ Idle)
    =>
    LET first == history[2]
        second == history[1]
        A == first.appliedSuggestion
        B == FindById(first.previousSuggestions, second.appliedSuggestion.id)
        T0 == first.previousContent
    IN (/\ first.outcome = "apply"
        /\ first.shown = T0
        /\ DistinctIds(first.previousSuggestions)
        /\ B # NoSuggestion
        /\ A.id # B.id
        /\ A.suggestion # A.original
        /\ B.suggestion # B.original
        /\ ValidateSuggestion(A, T0)
        /\ ValidateSuggestion(B, T0)
        /\ (B.position.end <= A.position.start
               \/ B.position.start >= A.position.end)
        /\ second.draftId \in {first.draftId, PersistedIdOf(first.draftId)}
        /\ activeDraftId \in {first.draftId, PersistedIdOf(first.draftId)})
       => EditorText(drafts, activeDraftId)
              = NewContent(NewContent(T0, A), AfterReplacing(B, A))

\* C19: applySuggestion validates and rewrites the editor's current
\* content: a suggestion that is valid for the text in the editor is not
\* rejected as stale, and the text an apply rewrites is the text in the
\* editor, so that nothing typed since the last save is lost by it.
C19_ApplyUsesEditorContent ==
    [][\A id \in SuggestionIds :
          (/\ ApplySuggestion(id)
           /\ Truthy(activeDraftId)
           /\ GetDraftById(drafts, activeDraftId) # NoDraft) =>
              /\ ValidateSuggestion(FindById(grammarSuggestions, id),
                                    content)
                     => lastOp'.op = "apply"
              /\ lastOp'.op = "apply" =>
                     undoStack'[1].previousContent = content]_vars

\* this step leaves the user editing the same draft: the active draft id
\* stays, or the active local draft is replaced by its persisted row
SameDraftEdited ==
    \/ activeDraftId' = activeDraftId
    \/ /\ GetDraftById(drafts, activeDraftId) # NoDraft
       /\ GetDraftById(drafts, activeDraftId).isLocal
       /\ activeDraftId' = PersistedIdOf(activeDraftId)
       /\ GetDraftById(drafts', activeDraftId') # NoDraft

\* C20: an undo record pushed by applySuggestion on the active draft stays
\* undoable while that draft remains the one edited: a step that neither
\* undoes nor pushes a record and leaves the user on the same draft, the
\* completion of a local draft's auto-persist included, keeps canUndo()
\* true.
C20_UndoRecordStaysUndoable ==
    [][(/\ CanUndo
        /\ undoStack' = undoStack
        /\ SameDraftEdited) => CanUndo']_vars

\* C21: after setActiveDraft has switched to another document, the set
\* holds no suggestion that was made for the text of the document that was
\* active before, of whatever kind.
C21_SwitchLeavesNoOldSuggestion ==
    lastOp.op = "setActiveDraft" =>
        \A s \in Range(lastOp.suggestions) : s \notin Range(grammarSuggestions)

\* C22: invalidateSuggestionsOnEdit never changes a surviving suggestion:
\* the set it leaves is the previous set without some of its members, the
\* others as they were and in their order, also when the edit changed the
\* length of the text before them; every suggestion clear of the changed
\* span survives, and when all are clear the set is left as it was.
C22_InvalidateKeepsSurvivorsVerbatim ==
    lastOp.op = "invalidate" =>
        LET before == lastOp.suggestions
            cs == SpanStart(previousContent, content)
            ce == SpanEnd(previousContent, content)
            IsClear(s) == s.position.end <= cs \/ s.position.start >= ce
        IN /\ grammarSuggestions =
                  SelectSeq(before,
                            LAMBDA s : s \in Range(grammarSuggestions))
           /\ \A i \in 1..Len(before) :
                  IsClear(before[i]) => before[i] \in Range(grammarSuggestions)
           /\ (\A i \in 1..Len(before) : IsClear(before[i])) =>
                  grammarSuggestions = before

\* an edit that changed the length of the text in front of a suggestion,
\* removed another suggestion and left that one
C22_Witness ==
    /\ lastOp.op = "invalidate"
    /\ Len(content) # Len(previousContent)
    /\ Len(lastOp.suggestions) = 2
    /\ Len(grammarSuggestions) = 1
    /\ grammarSuggestions[1].position.start
           >= SpanEnd(previousContent, content)
    /\ grammarSuggestions[1].position.start > 0

\* oldText and newText agree on [0, a) and on the Len(oldText) - b trailing
\* characters
AgreeOutside(oldText, newText, a, b) ==
    /\ 0 <= a /\ a <= b /\ b <= Len(oldText)
    /\ a <= Len(newText)
    /\ Len(oldText) - b <= Len(newText)
    /\ \A i \in 1..a : oldText[i] = newText[i]
    /\ \A i \in 0..(Len(oldText) - b - 1) :
           oldText[Len(oldText) - i] = newText[Len(newText) - i]

\* the prefix and the suffix that are kept lie apart in newText, so that
\* newText is oldText with [a, b) replaced
ReplacesSpan(oldText, newText, a, b) ==
    /\ AgreeOutside(oldText, newText, a, b)
    /\ a + (Len(oldText) - b) <= Len(newText)

\* C23, as the spec states it: the changed span of
\* invalidateSuggestionsOnEdit satisfies 0 <= changeStart <= changeEnd <=
\* len(oldText), the texts agree in front of it and behind it, no shorter
\* span of oldText has that property, and for an empty newText it is the
\* whole of oldText.
C23_SpanShortestAgreeing ==
    lastOp.op = "invalidate" =>
        LET changeStart == ChangeStart(previousContent, content)
            changeEnd == ChangeEnd(previousContent, content)
        IN /\ AgreeOutside(previousContent, content, changeStart, changeEnd)
           /\ \A a \in 0..Len(previousContent), b \in 0..Len(previousContent) :
                  AgreeOutside(previousContent, content, a, b) =>
                      b - a >= changeEnd - changeStart
           /\ content = <<>> =>
                  changeStart = 0 /\ changeEnd = Len(previousContent)

\* C23, amended: the changed span satisfies 0 <= changeStart <= changeEnd
\* <= len(oldText), the texts agree in front of it and behind it, the
\* prefix and the suffix so kept do not overlap in newText, and no shorter
\* span of oldText has all of that; for an empty newText it is the whole of
\* oldText.
C23_SpanShortestReplaced ==
    lastOp.op = "invalidate" =>
        LET changeStart == ChangeStart(previousContent, content)
            changeEnd == ChangeEnd(previousContent, content)
        IN /\ ReplacesSpan(previousContent, content, changeStart, changeEnd)
           /\ \A a \in 0..Len(previousContent), b \in 0..Len(previousContent) :
                  ReplacesSpan(previousContent, content, a, b) =>
                      b - a >= changeEnd - changeStart
           /\ content = <<>> =>
                  changeStart = 0 /\ changeEnd = Len(previousContent)

\* one of two equal characters was deleted: the span is one character long
\* although the texts agree in front of and behind an empty span
C23_Witness ==
    /\ lastOp.op = "invalidate"
    /\ lastOp.suggestions # <<>>
    /\ Len(content) < Len(previousContent)
    /\ ChangeEnd(previousContent, content)
           > ChangeStart(previousContent, content)
    /\ \E a \in 0..Len(previousContent) :
           AgreeOutside(previousContent, content, a, a)

\* C24: every error of spellChecker.checkText(text) has a position with
\* 0 <= start < end <= len(text) and text.slice(start, end) = word, also
\* for words with apostrophes or hyphens, and the spelling suggestion built
\* from it passes validateSuggestion against that text.
C24_SpellErrorsMatchText ==
    lastOp.op = "checkSpelling" =>
        \A i \in 1..Len(lastOp.errors) :
            LET e == lastOp.errors[i]
            IN /\ 0 <= e.position.start
               /\ e.position.start < e.position.end
               /\ e.position.end <= Len(content)
               /\ Slice(content, e.position.start, e.position.end) = e.word
               /\ ValidateSuggestion(grammarSuggestions[i], content)

\* C25: every result of clarityChecker.checkText(text) has a position with
\* 0 <= start < end <= len(text) whose text is exactly the result's original,
\* also when the snippet was found by the case-insensitive search only; the
\* service's suggestions of another type, and those whose original does not
\* occur in the text, are not among the results.
C25_ClarityResultsMatchText ==
    (lastOp.op = "checkText" /\ lastOp.result.kind = "results") =>
        LET results == lastOp.result.results
        IN /\ \A i \in 1..Len(results) :
                  LET r == results[i]
                  IN /\ 0 <= r.position.start
                     /\ r.position.start < r.position.end
                     /\ r.position.end <= Len(content)
                     /\ Slice(content, r.position.start, r.position.end)
                            = r.original
           /\ LET body == lastOp.call.outcome.json.body
              IN \A i \in 1..Len(results) :
                     \E j \in 1..Len(body.suggestions) :
                         /\ body.suggestions[j].type = "clarity"
                         /\ body.suggestions[j].original = results[i].original
                         /\ IndexOf(ToLowerCase(content),
                                    ToLowerCase(results[i].original)) # -1


\* C26: in the editor, every change of the content to a non-blank text while
\* not read-only hands that text to checkSpelling; checkClarity is called
\* only with a text whose trimmed length exceeds the minimum, only when the
\* content has not changed for the debounce delay, never in read-only mode,
\* and never with the text of the call before it; at most one clarity timer
\* is pending.
C26_SpellAlwaysClarityDebounced ==
    /\ [](Cardinality(editor.timers) <= 1)
    /\ [][/\ (content' # content /\ Len(Trim(content')) > 0
                 /\ ~editor'.readOnly) =>
                  lastOp'.spelling = <<content'>>
          /\ editor'.checks # editor.checks =>
                 /\ Len(Trim(Head(editor'.checks))) > ClarityMinLen
                 /\ Head(editor'.checks) = content
                 /\ now - editor.changedAt >= DebounceDelay
                 /\ ~editor.readOnly
                 /\ editor.checks # <<>> =>
                        Head(editor'.checks) # Head(editor.checks)]_vars


\* C27: no two suggestions of the set ever have the same id, whatever the
\* checkers merged, and whatever was applied, undone or cleared.
C27_SuggestionIdsUnique ==
    \A i, j \in 1..Len(grammarSuggestions) :
        grammarSuggestions[i].id = grammarSuggestions[j].id => i = j


C29_CheckingWhileInFlight ==
    isCheckingGrammar <=> (clarityCalls # {})


\* C30: a local draft is persisted at most once: no two createDraft requests
\* are made for the same local draft, however updateDraft and saveDraft are
\* interleaved on it; and when a persist completes, the draft that replaces
\* the local one holds the content of the latest local update.
C30_LocalDraftPersistedOnce ==
    /\ [](\A c1, c2 \in persistCalls : c1.id = c2.id => c1 = c2)
    /\ [][\A call \in persistCalls \ persistCalls' :
              (/\ drafts[call.id] # NoDraft
               /\ drafts'[call.id] = NoDraft
               /\ drafts'[PersistedIdOf(call.id)] # NoDraft) =>
                  drafts'[PersistedIdOf(call.id)].content
                      = drafts[call.id].content]_vars

====
